---- MODULE Spec2Model ----
(***************************************************************************)
(* PostgresAdapter of instant-admin-panel: connection lifecycle, schema    *)
(* introspection and the CRUD statements it compiles, together with a      *)
(* small relational engine that parses and executes the compiled text.     *)
(*                                                                         *)
(* Statement text is a sequence of tokens.  A fixed piece of a template    *)
(* literal is one token; every caller-supplied string is spliced in        *)
(* character by character, so that quoting and interpolation are visible   *)
(* in the text and the engine sees what the code really wrote.             *)
(***************************************************************************)
EXTENDS Integers, Sequences, FiniteSets, TLC

VARIABLES
    db,        \* this.db: 0 when null, otherwise the id of the pool it references
    config,    \* this.config: <<>> when null, otherwise <<schema name>>
    pools,     \* every pool created so far: [schema |-> name, open |-> BOOLEAN]
    tables,    \* the database: table name |-> set of rows
    serial,    \* next value of the serial sequence behind column i
    call,      \* the last completed adapter call: input, statements issued, outcome
    tasks      \* the calls that overlap, each where its last await left it

vars == <<db, config, pools, tables, serial, call, tasks>>

----------------------------------------------------------------------------
(* Bounds *)

MaxPools == 2
MaxSerial == 2

\* the calls that may overlap, and the pools they may create between them
MaxTasks == 3
MaxOverlapPools == 3

----------------------------------------------------------------------------
(* DatabaseValue: string | number | boolean | Date | null | undefined *)

Null == [t |-> "null"]
Undefined == [t |-> "undefined"]
Num(n) == [t |-> "num", n |-> n]
Str(s) == [t |-> "str", s |-> s]
Arr(a) == [t |-> "arr", a |-> a]

----------------------------------------------------------------------------
(* Sequence helpers *)

RECURSIVE Flatten(_)
Flatten(ss) == IF ss = <<>> THEN <<>> ELSE Head(ss) \o Flatten(Tail(ss))

\* Array.prototype.join: the pieces separated by sep
RECURSIVE Join(_, _)
Join(ss, sep) ==
    IF ss = <<>> THEN <<>>
    ELSE IF Len(ss) = 1 THEN Head(ss)
    ELSE Head(ss) \o sep \o Join(Tail(ss), sep)

Range(s) == {s[k] : k \in 1..Len(s)}

----------------------------------------------------------------------------
(* Names.  A name is a sequence of characters; Q is the double quote. *)

Q == "\""

SchemaS == <<"s">>
TableT == <<"t">>
TableU == <<"u">>
ColI == <<"i">>
ColA == <<"a">>
ColB == <<"b">>

\* characters a caller-supplied name may be made of
NameChars == {"s", "t", "u", "i", "a", "b", Q}
\* characters of an identifier the engine accepts without quotes
BareChars == NameChars \ {Q}

\* the columns of both tables, in ordinal position
Columns == <<ColI, ColA, ColB>>

\* String.prototype.replace(/"/g, '""')
RECURSIVE DoubleQuotes(_)
DoubleQuotes(name) ==
    IF name = <<>> THEN <<>>
    ELSE (IF Head(name) = Q THEN <<Q, Q>> ELSE <<Head(name)>>)
         \o DoubleQuotes(Tail(name))

\* pgp.as.name(name): the name wrapped in double quotes, embedded quotes doubled
as_name(name) == <<Q>> \o DoubleQuotes(name) \o <<Q>>

\* `$${n}` of a template literal
PlaceholderTokens == [n \in 1..9 |-> "$" \o ToString(n)]
Dollar(n) == PlaceholderTokens[n]

\* `${n}` of a template literal, n a number
NumberTokens == [n \in -30..30 |-> ToString(n)]
NumText(n) == NumberTokens[n]

----------------------------------------------------------------------------
(* The engine, part 1: reading identifiers and lists out of statement text *)

\* the rest of a quoted identifier, p being just after the opening quote
RECURSIVE ScanQuoted(_, _, _)
ScanQuoted(text, p, acc) ==
    IF p > Len(text) THEN [ok |-> FALSE, name |-> acc, next |-> p]
    ELSE IF text[p] = Q
         THEN IF p + 1 <= Len(text) /\ text[p + 1] = Q
              THEN ScanQuoted(text, p + 2, Append(acc, Q))
              ELSE [ok |-> acc # <<>>, name |-> acc, next |-> p + 1]
         ELSE ScanQuoted(text, p + 1, Append(acc, text[p]))

\* an unquoted identifier: the longest run of bare characters
RECURSIVE ScanBare(_, _, _)
ScanBare(text, p, acc) ==
    IF p <= Len(text) /\ text[p] \in BareChars
    THEN ScanBare(text, p + 1, Append(acc, text[p]))
    ELSE [ok |-> acc # <<>>, name |-> acc, next |-> p]

ReadIdent(text, p) ==
    IF p > Len(text) THEN [ok |-> FALSE, name |-> <<>>, next |-> p]
    ELSE IF text[p] = Q THEN ScanQuoted(text, p + 1, <<>>)
    ELSE ScanBare(text, p, <<>>)

At(text, p, tok) == p <= Len(text) /\ text[p] = tok

\* schema "." table
ReadQualified(text, p) ==
    LET s1 == ReadIdent(text, p)
        s2 == ReadIdent(text, s1.next + 1)
    IN  IF s1.ok /\ At(text, s1.next, ".") /\ s2.ok
        THEN [ok |-> TRUE, schema |-> s1.name, table |-> s2.name, next |-> s2.next]
        ELSE [ok |-> FALSE, schema |-> <<>>, table |-> <<>>, next |-> p]

\* identifier {", " identifier}
RECURSIVE ReadIdentList(_, _, _)
ReadIdentList(text, p, acc) ==
    LET id == ReadIdent(text, p)
    IN  IF ~id.ok THEN [ok |-> FALSE, names |-> acc, next |-> p]
        ELSE IF At(text, id.next, ", ")
             THEN ReadIdentList(text, id.next + 1, Append(acc, id.name))
             ELSE [ok |-> TRUE, names |-> Append(acc, id.name), next |-> id.next]

\* the index k of a placeholder token $k, 0 for any other token
PlaceholderOf(text, p) ==
    IF p <= Len(text) /\ \E k \in DOMAIN PlaceholderTokens : text[p] = Dollar(k)
    THEN CHOOSE k \in DOMAIN PlaceholderTokens : text[p] = Dollar(k)
    ELSE 0

\* $k {", " $k}
RECURSIVE ReadPlaceholderList(_, _, _)
ReadPlaceholderList(text, p, acc) ==
    LET k == PlaceholderOf(text, p)
    IN  IF k = 0 THEN [ok |-> FALSE, phs |-> acc, next |-> p]
        ELSE IF At(text, p + 1, ", ")
             THEN ReadPlaceholderList(text, p + 2, Append(acc, k))
             ELSE [ok |-> TRUE, phs |-> Append(acc, k), next |-> p + 1]

\* the comparison operators of a WHERE term that take one placeholder
CompareTokens == {" = ", " <> ", " > ", " >= ", " < ", " <= ", " LIKE "}
ArrayTokens == {" = ANY(", " != ALL("}
UnaryTokens == {" IS NULL", " IS NOT NULL"}

\* one term: identifier followed by a unary predicate, a comparison with a
\* placeholder, or an array predicate over a placeholder
ReadTerm(text, p) ==
    LET id == ReadIdent(text, p)
        q == id.next
        bad == [ok |-> FALSE, col |-> <<>>, op |-> "", ph |-> 0, next |-> p]
    IN  IF ~id.ok \/ q > Len(text) THEN bad
        ELSE IF text[q] \in UnaryTokens
             THEN [ok |-> TRUE, col |-> id.name, op |-> text[q], ph |-> 0, next |-> q + 1]
        ELSE IF text[q] \in CompareTokens /\ PlaceholderOf(text, q + 1) # 0
             THEN [ok |-> TRUE, col |-> id.name, op |-> text[q],
                   ph |-> PlaceholderOf(text, q + 1), next |-> q + 2]
        ELSE IF text[q] \in ArrayTokens /\ PlaceholderOf(text, q + 1) # 0
                /\ At(text, q + 2, ")")
             THEN [ok |-> TRUE, col |-> id.name, op |-> text[q],
                   ph |-> PlaceholderOf(text, q + 1), next |-> q + 3]
        ELSE bad

\* term {" AND " term}
RECURSIVE ReadTerms(_, _, _)
ReadTerms(text, p, acc) ==
    LET After(t) ==
            LET c == [col |-> t.col, op |-> t.op, ph |-> t.ph]
            IN  IF ~t.ok THEN [ok |-> FALSE, terms |-> acc, next |-> p]
                ELSE IF At(text, t.next, " AND ")
                     THEN ReadTerms(text, t.next + 1, Append(acc, c))
                     ELSE [ok |-> TRUE, terms |-> Append(acc, c), next |-> t.next]
    IN  After(ReadTerm(text, p))

----------------------------------------------------------------------------
(* The engine, part 2: parsing the statement shapes the adapter sends *)

NoStatement ==
    [ok |-> FALSE, kind |-> "", schema |-> <<>>, table |-> <<>>, cols |-> <<>>,
     phs |-> <<>>, terms |-> <<>>, order |-> <<>>, limit |-> 0, offset |-> 0]

\* numbers the engine reads as integer literals
IntLiterals == DOMAIN NumberTokens

IsIntToken(tok) == \E n \in IntLiterals : tok = NumText(n)
IntOf(tok) == CHOOSE n \in IntLiterals : tok = NumText(n)

\* INSERT INTO schema.table (columns) VALUES (placeholders) RETURNING *
ParseInsert(text) ==
    LET Parsed(qn, cl, pl) ==
            IF /\ qn.ok /\ At(text, qn.next, " (")
               /\ cl.ok /\ At(text, cl.next, ") VALUES (")
               /\ pl.ok /\ At(text, pl.next, ") RETURNING *")
               /\ pl.next = Len(text)
            THEN [NoStatement EXCEPT !.ok = TRUE, !.kind = "insert",
                                     !.schema = qn.schema, !.table = qn.table,
                                     !.cols = cl.names, !.phs = pl.phs]
            ELSE NoStatement
        Values(qn, cl) == Parsed(qn, cl, ReadPlaceholderList(text, cl.next + 1, <<>>))
        Names(qn) == Values(qn, ReadIdentList(text, qn.next + 1, <<>>))
    IN  Names(ReadQualified(text, 2))

\* DELETE FROM schema.table WHERE terms RETURNING 1 AS deleted
ParseDelete(text) ==
    LET Parsed(qn, ts) ==
            IF /\ qn.ok /\ At(text, qn.next, " WHERE ")
               /\ ts.ok /\ At(text, ts.next, " RETURNING 1 AS deleted")
               /\ ts.next = Len(text)
            THEN [NoStatement EXCEPT !.ok = TRUE, !.kind = "delete",
                                     !.schema = qn.schema, !.table = qn.table,
                                     !.terms = ts.terms]
            ELSE NoStatement
        Terms(qn) == Parsed(qn, ReadTerms(text, qn.next + 1, <<>>))
    IN  Terms(ReadQualified(text, 2))

\* an optional WHERE clause starting at p
ReadWhere(text, p) ==
    IF At(text, p, "WHERE ")
    THEN ReadTerms(text, p + 1, <<>>)
    ELSE [ok |-> TRUE, terms |-> <<>>, next |-> p]

\* column direction nulls {", " column direction nulls}
RECURSIVE ReadSortList(_, _, _)
ReadSortList(text, p, acc) ==
    LET id == ReadIdent(text, p)
        q == id.next
        good == /\ id.ok
                /\ At(text, q, " ")
                /\ q + 1 <= Len(text) /\ text[q + 1] \in {"ASC", "DESC"}
                /\ At(text, q + 2, " ")
                /\ q + 3 <= Len(text) /\ text[q + 3] \in {"NULLS FIRST", "NULLS LAST"}
        term == [col |-> id.name, dir |-> text[q + 1], nulls |-> text[q + 3]]
    IN  IF ~good THEN [ok |-> FALSE, order |-> acc, next |-> p]
        ELSE IF At(text, q + 4, ", ")
             THEN ReadSortList(text, q + 5, Append(acc, term))
             ELSE [ok |-> TRUE, order |-> Append(acc, term), next |-> q + 4]

\* an optional ORDER BY clause starting at p
ReadOrderBy(text, p) ==
    IF At(text, p, "ORDER BY ")
    THEN ReadSortList(text, p + 1, <<>>)
    ELSE [ok |-> TRUE, order |-> <<>>, next |-> p]

\* SELECT * FROM schema.table [WHERE terms] [ORDER BY sorts] LIMIT n OFFSET m
ParseSelect(text) ==
    LET Parsed(qn, wh, ob, q) ==
            IF /\ qn.ok /\ At(text, qn.next, " ")
               /\ wh.ok /\ At(text, wh.next, " ")
               /\ ob.ok /\ At(text, q, " LIMIT ")
               /\ q + 1 <= Len(text) /\ IsIntToken(text[q + 1])
               /\ At(text, q + 2, " OFFSET ")
               /\ q + 3 = Len(text) /\ IsIntToken(text[q + 3])
            THEN [NoStatement EXCEPT !.ok = TRUE, !.kind = "select",
                                     !.schema = qn.schema, !.table = qn.table,
                                     !.terms = wh.terms, !.order = ob.order,
                                     !.limit = IntOf(text[q + 1]),
                                     !.offset = IntOf(text[q + 3])]
            ELSE NoStatement
        Paging(qn, wh, ob) == Parsed(qn, wh, ob, ob.next)
        Order(qn, wh) == Paging(qn, wh, ReadOrderBy(text, wh.next + 1))
        Where(qn) == Order(qn, ReadWhere(text, qn.next + 1))
    IN  Where(ReadQualified(text, 2))

\* SELECT COUNT(*) as total FROM schema.table [WHERE terms]
ParseCount(text) ==
    LET Parsed(qn, wh) ==
            IF /\ qn.ok /\ At(text, qn.next, " ")
               /\ wh.ok /\ wh.next = Len(text) + 1
            THEN [NoStatement EXCEPT !.ok = TRUE, !.kind = "count",
                                     !.schema = qn.schema, !.table = qn.table,
                                     !.terms = wh.terms]
            ELSE NoStatement
        Where(qn) == Parsed(qn, ReadWhere(text, qn.next + 1))
    IN  Where(ReadQualified(text, 2))

ParseStatement(text) ==
    IF At(text, 1, "INSERT INTO ") THEN ParseInsert(text)
    ELSE IF At(text, 1, "DELETE FROM ") THEN ParseDelete(text)
    ELSE IF At(text, 1, "SELECT * FROM ") THEN ParseSelect(text)
    ELSE IF At(text, 1, "SELECT COUNT(*) as total FROM ") THEN ParseCount(text)
    ELSE NoStatement

----------------------------------------------------------------------------
(* The engine, part 3: executing a parsed statement.  Both tables have the *)
(* columns i SERIAL PRIMARY KEY, a INTEGER DEFAULT 0 CHECK (a >= 0) and    *)
(* b INTEGER NOT NULL UNIQUE.                                              *)

\* the literal the driver sends for a bound JS value: undefined goes as NULL
BindValue(v) == IF v = Undefined THEN Null ELSE v

IsInteger(v) == v.t = "num"
IsIntegerArray(v) == v.t = "arr" /\ \A k \in 1..Len(v.a) : IsInteger(v.a[k])

\* the error a WHERE term raises whatever the rows are, "" when it is well typed
TermError(term, params) ==
    LET v == BindValue(params[term.ph])
    IN  IF term.col \notin Range(Columns) THEN "column does not exist"
        ELSE IF term.op \in UnaryTokens THEN ""
        ELSE IF term.op = " LIKE " THEN "operator does not exist: integer ~~ unknown"
        ELSE IF term.op \in ArrayTokens
             THEN IF IsIntegerArray(v) \/ v = Null THEN ""
                  ELSE "malformed array literal"
        ELSE IF IsInteger(v) \/ v = Null THEN ""
        ELSE "invalid input syntax for type integer"

\* whether a well-typed term is true of a row (unknown counts as not true)
TermHolds(row, term, params) ==
    LET x == row[term.col]
        v == BindValue(params[term.ph])
    IN  CASE term.op = " IS NULL" -> x = Null
          [] term.op = " IS NOT NULL" -> x # Null
          [] term.op = " = ANY(" ->
                x # Null /\ v # Null /\ \E k \in 1..Len(v.a) : v.a[k] = x
          [] term.op = " != ALL(" ->
                x # Null /\ v # Null /\ \A k \in 1..Len(v.a) : v.a[k] # x
          [] OTHER ->
                /\ x # Null
                /\ v # Null
                /\ CASE term.op = " = " -> x.n = v.n
                     [] term.op = " <> " -> x.n # v.n
                     [] term.op = " > " -> x.n > v.n
                     [] term.op = " >= " -> x.n >= v.n
                     [] term.op = " < " -> x.n < v.n
                     [] term.op = " <= " -> x.n <= v.n

RowMatches(row, terms, params) ==
    \A k \in 1..Len(terms) : TermHolds(row, terms[k], params)

\* the first error among the terms, "" when there is none
RECURSIVE TermsError(_, _)
TermsError(terms, params) ==
    IF terms = <<>> THEN ""
    ELSE IF TermError(Head(terms), params) # "" THEN TermError(Head(terms), params)
    ELSE TermsError(Tail(terms), params)

\* placeholders of a statement, in the order they appear
RECURSIVE TermPlaceholders(_)
TermPlaceholders(terms) ==
    IF terms = <<>> THEN <<>>
    ELSE (IF Head(terms).ph = 0 THEN <<>> ELSE <<Head(terms).ph>>)
         \o TermPlaceholders(Tail(terms))

Outcome(err, rows, tbls, ser) ==
    [err |-> err, rows |-> rows, tables |-> tbls, serial |-> ser]

\* the value column c takes when the INSERT does not name it
DefaultOf(c, ser) ==
    IF c = ColI THEN Num(ser) ELSE IF c = ColA THEN Num(0) ELSE Null

Position(seq, x) == CHOOSE k \in 1..Len(seq) : seq[k] = x

ExecInsert(st, params, tbls, ser) ==
    LET vals == [k \in 1..Len(st.phs) |-> BindValue(params[st.phs[k]])]
        row == [c \in Range(Columns) |->
                   IF c \in Range(st.cols) THEN vals[Position(st.cols, c)]
                   ELSE DefaultOf(c, ser)]
        ser2 == IF ColI \in Range(st.cols) THEN ser ELSE ser + 1
        old == tbls[st.table]
    IN  IF \E k \in 1..Len(st.cols) : st.cols[k] \notin Range(Columns)
        THEN Outcome("column does not exist", <<>>, tbls, ser)
        ELSE IF \E j, k \in 1..Len(st.cols) : j # k /\ st.cols[j] = st.cols[k]
        THEN Outcome("column specified more than once", <<>>, tbls, ser)
        ELSE IF Len(st.cols) # Len(st.phs)
        THEN Outcome("INSERT has a different number of target columns and expressions",
                     <<>>, tbls, ser)
        ELSE IF \E k \in 1..Len(vals) : ~(IsInteger(vals[k]) \/ vals[k] = Null)
        THEN Outcome("invalid input syntax for type integer", <<>>, tbls, ser)
        ELSE IF row[ColI] = Null \/ row[ColB] = Null
        THEN Outcome("violates not-null constraint", <<>>, tbls, ser2)
        ELSE IF row[ColA] # Null /\ row[ColA].n < 0
        THEN Outcome("violates check constraint", <<>>, tbls, ser2)
        ELSE IF \E r \in old : r[ColI] = row[ColI] \/ r[ColB] = row[ColB]
        THEN Outcome("duplicate key value violates unique constraint", <<>>, tbls, ser2)
        ELSE Outcome("", <<row>>, [tbls EXCEPT ![st.table] = old \cup {row}], ser2)

ExecDelete(st, params, tbls, ser) ==
    LET old == tbls[st.table]
        gone == {r \in old : RowMatches(r, st.terms, params)}
    IN  IF TermsError(st.terms, params) # ""
        THEN Outcome(TermsError(st.terms, params), <<>>, tbls, ser)
        ELSE Outcome("", [k \in 1..Cardinality(gone) |-> [deleted |-> 1]],
                     [tbls EXCEPT ![st.table] = old \ gone], ser)

\* every way to list the elements of a finite set
Orderings(S) ==
    {f \in [1..Cardinality(S) -> S] : \A j, k \in 1..Cardinality(S) : j # k => f[j] # f[k]}

\* -1, 0, 1: how x sorts against y under one ORDER BY term
CompareBy(x, y, term) ==
    LET u == x[term.col]
        v == y[term.col]
        nullFirst == term.nulls = "NULLS FIRST"
    IN  IF u = v THEN 0
        ELSE IF u = Null THEN (IF nullFirst THEN -1 ELSE 1)
        ELSE IF v = Null THEN (IF nullFirst THEN 1 ELSE -1)
        ELSE IF term.dir = "ASC" THEN (IF u.n < v.n THEN -1 ELSE 1)
        ELSE (IF u.n > v.n THEN -1 ELSE 1)

RECURSIVE CompareRows(_, _, _)
CompareRows(x, y, order) ==
    IF order = <<>> THEN 0
    ELSE IF CompareBy(x, y, Head(order)) # 0 THEN CompareBy(x, y, Head(order))
    ELSE CompareRows(x, y, Tail(order))

\* the rows of S sorted by order; rows the order does not separate come in the
\* order the scan delivers them (heap): each row of the scan is put behind the
\* rows that do not sort after it
SortRows(S, order, heap) ==
    LET RECURSIVE Insert(_, _)
        Insert(sorted, x) ==
            IF sorted = <<>> THEN <<x>>
            ELSE IF CompareRows(x, Head(sorted), order) < 0 THEN <<x>> \o sorted
            ELSE <<Head(sorted)>> \o Insert(Tail(sorted), x)
        RECURSIVE Sorted(_, _)
        Sorted(rest, acc) ==
            IF rest = <<>> THEN acc
            ELSE IF Head(rest) \in S THEN Sorted(Tail(rest), Insert(acc, Head(rest)))
            ELSE Sorted(Tail(rest), acc)
    IN  Sorted(heap, <<>>)

Min(x, y) == IF x < y THEN x ELSE y

ExecSelect(st, params, tbls, ser, heap) ==
    LET hit == {r \in tbls[st.table] : RowMatches(r, st.terms, params)}
        sorted == SortRows(hit, st.order, heap)
    IN  IF TermsError(st.terms, params) # ""
        THEN Outcome(TermsError(st.terms, params), <<>>, tbls, ser)
        ELSE IF \E k \in 1..Len(st.order) : st.order[k].col \notin Range(Columns)
        THEN Outcome("column does not exist", <<>>, tbls, ser)
        ELSE IF st.limit < 0
        THEN Outcome("LIMIT must not be negative", <<>>, tbls, ser)
        ELSE IF st.offset < 0
        THEN Outcome("OFFSET must not be negative", <<>>, tbls, ser)
        ELSE Outcome("", SubSeq(sorted, st.offset + 1,
                                Min(st.offset + st.limit, Len(sorted))), tbls, ser)

\* COUNT(*) is a bigint, which the driver delivers as text
ExecCount(st, params, tbls, ser) ==
    LET hit == {r \in tbls[st.table] : RowMatches(r, st.terms, params)}
    IN  IF TermsError(st.terms, params) # ""
        THEN Outcome(TermsError(st.terms, params), <<>>, tbls, ser)
        ELSE Outcome("", <<[total |-> NumText(Cardinality(hit))]>>, tbls, ser)

\* the driver formats the statement with params and the engine runs it; heap
\* is the order in which a scan of the table delivers its rows
Exec(text, params, tbls, ser, heap) ==
    LET Run(st) ==
            IF \E p \in 1..Len(text) : PlaceholderOf(text, p) > Len(params)
            THEN Outcome("Variable out of range", <<>>, tbls, ser)
            ELSE IF ~st.ok THEN Outcome("syntax error", <<>>, tbls, ser)
            ELSE IF st.schema # SchemaS \/ st.table \notin DOMAIN tbls
            THEN Outcome("relation does not exist", <<>>, tbls, ser)
            ELSE CASE st.kind = "insert" -> ExecInsert(st, params, tbls, ser)
                   [] st.kind = "delete" -> ExecDelete(st, params, tbls, ser)
                   [] st.kind = "select" -> ExecSelect(st, params, tbls, ser, heap)
                   [] st.kind = "count" -> ExecCount(st, params, tbls, ser)
    IN  Run(ParseStatement(text))

----------------------------------------------------------------------------
(* The engine, part 4: the catalog queries of schema introspection *)

A == "'"

\* the rest of a string literal, p being just after the opening apostrophe
RECURSIVE ScanLiteral(_, _, _)
ScanLiteral(text, p, acc) ==
    IF p > Len(text) THEN [ok |-> FALSE, value |-> acc, next |-> p]
    ELSE IF text[p] = A
         THEN IF p + 1 <= Len(text) /\ text[p + 1] = A
              THEN ScanLiteral(text, p + 2, Append(acc, A))
              ELSE [ok |-> TRUE, value |-> acc, next |-> p + 1]
         ELSE ScanLiteral(text, p + 1, Append(acc, text[p]))

\* a text value: a placeholder bound to a string, or a string literal
ReadValue(text, p, params) ==
    LET k == PlaceholderOf(text, p)
    IN  IF k # 0
        THEN IF k <= Len(params) /\ params[k].t = "str"
             THEN [ok |-> TRUE, value |-> params[k].s, next |-> p + 1]
             ELSE [ok |-> FALSE, value |-> <<>>, next |-> p]
        ELSE IF At(text, p, A) THEN ScanLiteral(text, p + 1, <<>>)
        ELSE [ok |-> FALSE, value |-> <<>>, next |-> p]

\* text against a pattern of fixed tokens and value slots ("?"): the values
RECURSIVE MatchPattern(_, _, _, _, _)
MatchPattern(text, p, pattern, params, acc) ==
    IF pattern = <<>> THEN [ok |-> p = Len(text) + 1, values |-> acc]
    ELSE IF Head(pattern) = "?"
         THEN LET v == ReadValue(text, p, params)
              IN  IF v.ok
                  THEN MatchPattern(text, v.next, Tail(pattern), params,
                                    Append(acc, v.value))
                  ELSE [ok |-> FALSE, values |-> acc]
         ELSE IF At(text, p, Head(pattern))
              THEN MatchPattern(text, p + 1, Tail(pattern), params, acc)
              ELSE [ok |-> FALSE, values |-> acc]

TablesHead == "SELECT table_name FROM information_schema.tables WHERE table_schema = "
TablesTail == " AND table_type = 'BASE TABLE'"
ColumnsHead ==
    "SELECT column_name, data_type, udt_name, is_nullable, column_default, character_maximum_length, numeric_precision, numeric_scale FROM information_schema.columns WHERE table_schema = "
ColumnsMid == " AND table_name = "
ColumnsTail == " ORDER BY ordinal_position"
PrimaryKeyHead ==
    "SELECT kcu.column_name FROM information_schema.table_constraints tc JOIN information_schema.key_column_usage kcu ON tc.constraint_name = kcu.constraint_name AND tc.table_schema = kcu.table_schema WHERE tc.constraint_type = 'PRIMARY KEY' AND tc.table_schema = "
ConstraintMid == " AND tc.table_name = "
ForeignKeyHead ==
    "SELECT kcu.column_name, ccu.table_name AS foreign_table_name, ccu.column_name AS foreign_column_name, rc.delete_rule, rc.update_rule FROM information_schema.table_constraints tc JOIN information_schema.key_column_usage kcu ON tc.constraint_name = kcu.constraint_name AND tc.table_schema = kcu.table_schema JOIN information_schema.referential_constraints rc ON tc.constraint_name = rc.constraint_name AND tc.table_schema = rc.constraint_schema JOIN information_schema.constraint_column_usage ccu ON ccu.constraint_name = tc.constraint_name AND ccu.table_schema = tc.table_schema WHERE tc.constraint_type = 'FOREIGN KEY' AND tc.table_schema = "
ConstraintHead ==
    "WITH table_oid AS (SELECT c.oid FROM pg_catalog.pg_class c JOIN pg_catalog.pg_namespace n ON n.oid = c.relnamespace WHERE n.nspname = "
ConstraintRel == " AND c.relname = "
ConstraintSelect ==
    ") SELECT tc.constraint_name, tc.constraint_type, kcu.column_name, cc.check_clause, pg_get_constraintdef(pgc.oid) as constraint_definition FROM information_schema.table_constraints tc LEFT JOIN information_schema.key_column_usage kcu ON tc.constraint_name = kcu.constraint_name AND tc.table_schema = kcu.table_schema LEFT JOIN information_schema.check_constraints cc ON tc.constraint_name = cc.constraint_name AND tc.table_schema = cc.constraint_schema LEFT JOIN pg_catalog.pg_constraint pgc ON pgc.conname = tc.constraint_name AND pgc.conrelid = (SELECT oid FROM table_oid) WHERE tc.table_schema = "
ConstraintTail == " AND tc.constraint_type IN ('UNIQUE', 'CHECK')"

\* information_schema.columns of a table of schema s
CatalogColumns ==
    <<[column_name |-> ColI, data_type |-> "integer", udt_name |-> "int4",
       is_nullable |-> "NO", column_default |-> Str(<<"nextval('i_seq'::regclass)">>)],
      [column_name |-> ColA, data_type |-> "integer", udt_name |-> "int4",
       is_nullable |-> "YES", column_default |-> Str(<<"0">>)],
      [column_name |-> ColB, data_type |-> "integer", udt_name |-> "int4",
       is_nullable |-> "NO", column_default |-> Null]>>

CatalogPrimaryKey == <<[column_name |-> ColI]>>

\* the foreign keys of column a of table u, which reference t(i), t(b) and
\* u(i), with the five rules the engine knows; table t has none
CatalogForeignKeys(table) ==
    IF table = TableU
    THEN <<[column_name |-> ColA, foreign_table_name |-> TableT,
            foreign_column_name |-> ColI,
            delete_rule |-> "CASCADE", update_rule |-> "NO ACTION"],
           [column_name |-> ColA, foreign_table_name |-> TableT,
            foreign_column_name |-> ColB,
            delete_rule |-> "SET NULL", update_rule |-> "RESTRICT"],
           [column_name |-> ColA, foreign_table_name |-> TableU,
            foreign_column_name |-> ColI,
            delete_rule |-> "SET DEFAULT", update_rule |-> "CASCADE"]>>
    ELSE <<>>

CatalogConstraints ==
    <<[constraint_name |-> "b_key", constraint_type |-> "UNIQUE",
       column_name |-> Str(ColB), check_clause |-> Null,
       constraint_definition |-> Str(<<"UNIQUE (b)">>)],
      [constraint_name |-> "a_check", constraint_type |-> "CHECK",
       column_name |-> Null, check_clause |-> Str(<<"((a >= 0))">>),
       constraint_definition |-> Str(<<"CHECK ((a >= 0))">>)]>>

\* the rows a catalog query returns; names is an ordering of the table names
ExecCatalog(text, params, tbls, names) ==
    LET Known(schema, table) == schema = SchemaS /\ table \in DOMAIN tbls
        Rows(rows) == [err |-> "", rows |-> rows]
        tl == MatchPattern(text, 1, <<TablesHead, "?", TablesTail>>, params, <<>>)
        cl == MatchPattern(text, 1, <<ColumnsHead, "?", ColumnsMid, "?", ColumnsTail>>,
                           params, <<>>)
        pk == MatchPattern(text, 1, <<PrimaryKeyHead, "?", ConstraintMid, "?">>,
                           params, <<>>)
        fk == MatchPattern(text, 1, <<ForeignKeyHead, "?", ConstraintMid, "?">>,
                           params, <<>>)
        cs == MatchPattern(text, 1, <<ConstraintHead, "?", ConstraintRel, "?",
                                      ConstraintSelect, "?", ConstraintMid, "?",
                                      ConstraintTail>>, params, <<>>)
    IN  IF \E p \in 1..Len(text) : PlaceholderOf(text, p) > Len(params)
        THEN [err |-> "Variable out of range", rows |-> <<>>]
        ELSE IF tl.ok
        THEN Rows(IF tl.values[1] = SchemaS
                  THEN [k \in 1..Len(names) |-> [table_name |-> names[k]]]
                  ELSE <<>>)
        ELSE IF cl.ok
        THEN Rows(IF Known(cl.values[1], cl.values[2]) THEN CatalogColumns ELSE <<>>)
        ELSE IF pk.ok
        THEN Rows(IF Known(pk.values[1], pk.values[2]) THEN CatalogPrimaryKey ELSE <<>>)
        ELSE IF fk.ok
        THEN Rows(IF Known(fk.values[1], fk.values[2])
                  THEN CatalogForeignKeys(fk.values[2]) ELSE <<>>)
        ELSE IF cs.ok
        THEN Rows(IF Known(cs.values[3], cs.values[4]) THEN CatalogConstraints ELSE <<>>)
        ELSE [err |-> "syntax error", rows |-> <<>>]

\* db.one: exactly one row, anything else rejects (after the statement ran)
db_one(out) ==
    IF out.err # "" THEN out
    ELSE IF Len(out.rows) = 0 THEN [out EXCEPT !.err = "No data returned from the query."]
    ELSE IF Len(out.rows) > 1 THEN [out EXCEPT !.err = "Multiple rows were not expected."]
    ELSE out

\* db.oneOrNone: no row or one row, more rows reject (after the statement ran)
db_oneOrNone(out) ==
    IF out.err # "" THEN out
    ELSE IF Len(out.rows) > 1 THEN [out EXCEPT !.err = "Multiple rows were not expected."]
    ELSE out

----------------------------------------------------------------------------
(* Inputs *)

\* config.connection.schema of the configurations connect is called with:
\* the schema of the fixture, and a schema the
\* database does not have
Schemas == {SchemaS, <<"u">>}

\* tableName arguments: a table and a name with an embedded quote
TableNames == {TableT, <<"t", Q>>}

\* keys of record and where objects
Keys == {ColA, ColB}

\* a key that is the quoted form of a column name
QuotedA == <<Q, "a", Q>>

\* values of record and where fields
FieldValues == {Undefined, Null, Num(-1), Num(1)}

Fields == [k : Keys, v : FieldValues]

\* objects with at most two own keys, as the sequence of their entries in
\* Object.keys order
Objects ==
    {<<>>} \cup {<<f>> : f \in Fields}
           \cup {<<fg[1], fg[2]>> : fg \in {p \in Fields \X Fields : p[1].k # p[2].k}}
           \cup {<<[k |-> QuotedA, v |-> Num(1)]>>,
                 <<[k |-> QuotedA, v |-> Num(1)], [k |-> ColB, v |-> Num(1)]>>}

\* a few TableDataOptions: paging given or not, one sort term or none, one
\* filter or none
SomeOptions ==
    [perPage : {Undefined, Num(1)}, page : {Undefined, Num(2)},
     orderBy : {<<>>, <<[column |-> ColA, direction |-> "desc"]>>},
     hasFilters : {TRUE},
     filters : {<<>>, <<[column |-> ColA, operator |-> "eq", value |-> Num(1)]>>}]
    \cup {[perPage |-> Undefined, page |-> Undefined, orderBy |-> <<>>,
           hasFilters |-> FALSE, filters |-> <<>>]}

----------------------------------------------------------------------------
(* The adapter *)

NoOptions ==
    [perPage |-> Undefined, page |-> Undefined, orderBy |-> <<>>,
     hasFilters |-> FALSE, filters |-> <<>>]

\* what a completed call leaves behind: its arguments, the statements it
\* handed to the driver, and whether it resolved (value) or rejected (message)
Call(op, tableName, object, options, stmts, status, message, value) ==
    [op |-> op, table |-> tableName, object |-> object, options |-> options,
     stmts |-> stmts, status |-> status, message |-> message, value |-> value]

Resolved(op, tableName, object, options, stmts, value) ==
    Call(op, tableName, object, options, stmts, "ok", "", value)

Rejected(op, tableName, object, options, stmts, message) ==
    Call(op, tableName, object, options, stmts, "error", message, Undefined)

Statement(text, params) == [text |-> text, params |-> params]

\* a catch that rethrows the error as it came
Rethrown(prefix, message) == message

\* catch (error) { errorMessage += `: ${error.message}` }
Wrap(prefix, message) == prefix \o ": " \o message

\* no call is in progress and the outcome of the last one has been taken
Idle == Resolved("idle", <<>>, <<>>, NoOptions, <<>>, Undefined)

Init ==
    /\ db = 0
    /\ tasks = <<>>
    /\ config = <<>>
    /\ pools = <<>>
    /\ tables = [n \in {TableT, TableU} |->
                    IF n = TableU
                    THEN {[c \in Range(Columns) |-> IF c = ColA THEN Null ELSE Num(1)]}
                    ELSE {}]
    /\ serial = 1
    /\ call = Idle

\* a guard that never finds the adapter disconnected
AlwaysConnected(d) == FALSE

\* !this.db
NotConnected(d) == d = 0

\* an end() that leaves the pool as it is
LeavePool(ps, id) == ps

\* this.db.$pool.end(); this.db = null
ClosePool(ps, id) == [ps EXCEPT ![id].open = FALSE]

connect(schema) ==
    /\ call.op = "idle"
    /\ UNCHANGED tasks
    /\ Len(pools) < MaxPools
    /\ LET closed == IF db # 0 THEN ClosePool(pools, db) ELSE pools
       IN  /\ pools' = Append(closed, [schema |-> schema, open |-> TRUE])
           /\ db' = Len(pools) + 1
    /\ config' = <<schema>>
    /\ call' = Resolved("connect", <<>>, <<>>, NoOptions, <<>>, Undefined)
    /\ UNCHANGED <<tables, serial>>

disconnect ==
    /\ call.op = "idle"
    /\ UNCHANGED tasks
    /\ IF db # 0
       THEN pools' = ClosePool(pools, db) /\ db' = 0
       ELSE UNCHANGED <<pools, db>>
    /\ call' = Resolved("disconnect", <<>>, <<>>, NoOptions, <<>>, Undefined)
    /\ UNCHANGED <<config, tables, serial>>

\* the driver rejects a statement when the connection to the server is lost
ConnectionLost == "Connection terminated unexpectedly"

HealthCheckQuery == <<"SELECT 1 as healthcheck">>

\* a healthCheck that lets the error of the round trip through
healthCheckThrowing(lost) ==
    /\ call.op = "idle"
    /\ UNCHANGED tasks
    /\ call' = IF NotConnected(db)
               THEN Resolved("healthCheck", <<>>, <<>>, NoOptions, <<>>, FALSE)
               ELSE IF lost
               THEN Rejected("healthCheck", <<>>, <<>>, NoOptions,
                             <<Statement(HealthCheckQuery, <<>>)>>, ConnectionLost)
               ELSE Resolved("healthCheck", <<>>, <<>>, NoOptions,
                             <<Statement(HealthCheckQuery, <<>>)>>, TRUE)
    /\ UNCHANGED <<db, config, pools, tables, serial>>

\* the call resolves whatever happens; when the round trip fails, message
\* keeps the error that the catch swallows
healthCheck(lost) ==
    /\ call.op = "idle"
    /\ UNCHANGED tasks
    /\ LET Settle(stmts, caught, value) ==
               Call("healthCheck", <<>>, <<>>, NoOptions, stmts, "ok", caught, value)
       IN  IF NotConnected(db)
           THEN call' = Settle(<<>>, "", FALSE)
           ELSE IF lost
           THEN call' = Settle(<<Statement(HealthCheckQuery, <<>>)>>, ConnectionLost, FALSE)
           ELSE call' = Settle(<<Statement(HealthCheckQuery, <<>>)>>, "", TRUE)
    /\ UNCHANGED <<db, config, pools, tables, serial>>

GetTableListQuery == <<TablesHead, Dollar(1), TablesTail>>

getTableList(names, lost) ==
    /\ call.op = "idle"
    /\ UNCHANGED tasks
    /\ LET params == <<Str(config[1])>>
           stmts == <<Statement(GetTableListQuery, params)>>
           Rows == ExecCatalog(GetTableListQuery, params, tables, names)
           Reject(issued, message) ==
               Rejected("getTableList", <<>>, <<>>, NoOptions, issued, message)
       IN  IF NotConnected(db)
           THEN call' = Reject(<<>>, "Database not connected")
           ELSE IF config = <<>>
           THEN call' = Reject(<<>>, "Database config not set")
           ELSE IF lost
           THEN call' = Reject(stmts, ConnectionLost)
           ELSE \E out \in {Rows} :
                IF out.err # ""
                THEN call' = Reject(stmts, out.err)
                ELSE call' = Resolved("getTableList", <<>>, <<>>, NoOptions, stmts,
                                      [k \in 1..Len(out.rows) |-> out.rows[k].table_name])
    /\ UNCHANGED <<db, config, pools, tables, serial>>

ColumnsQuery == <<ColumnsHead, Dollar(1), ColumnsMid, Dollar(2), ColumnsTail>>
PrimaryKeyQuery == <<PrimaryKeyHead, Dollar(1), ConstraintMid, Dollar(2)>>
ForeignKeyQuery == <<ForeignKeyHead, Dollar(1), ConstraintMid, Dollar(2)>>
ConstraintQuery ==
    <<ConstraintHead, Dollar(1), ConstraintRel, Dollar(2), ConstraintSelect,
      Dollar(1), ConstraintMid, Dollar(2), ConstraintTail>>

GetTableSchemaQueries == <<ColumnsQuery, PrimaryKeyQuery, ForeignKeyQuery, ConstraintQuery>>

\* a mapping that looks the column's data_type up instead of its udt_name
mapPostgresTypeByDataType(dataType, udtName) ==
    CASE dataType \in {"smallint", "integer", "bigint"} -> "integer"
      [] dataType \in {"real", "double precision"} -> "float"
      [] dataType = "numeric" -> "decimal"
      [] dataType \in {"character", "character varying", "text", "name", "uuid"} -> "string"
      [] dataType = "boolean" -> "boolean"
      [] dataType = "date" -> "date"
      [] dataType = "bytea" -> "binary"
      [] dataType \in {"json", "jsonb"} -> "json"
      [] dataType = "ARRAY" -> "array"
      [] OTHER -> "unknown"

mapPostgresTypeToUnifiedType(dataType, udtName) ==
    CASE udtName \in {"int2", "int4", "int8", "smallint", "integer", "bigint"} -> "integer"
      [] udtName \in {"float4", "float8", "real", "double precision"} -> "float"
      [] udtName \in {"numeric", "decimal"} -> "decimal"
      [] udtName \in {"char", "varchar", "text", "name", "bpchar", "uuid"} -> "string"
      [] udtName \in {"bool", "boolean"} -> "boolean"
      [] udtName = "date" -> "date"
      [] udtName \in {"time", "timetz"} -> "time"
      [] udtName \in {"timestamp", "timestamptz"} -> "datetime"
      [] udtName = "bytea" -> "binary"
      [] udtName \in {"json", "jsonb"} -> "json"
      [] udtName \in {"_int2", "_int4", "_int8", "_text", "_varchar", "_bool", "_numeric",
                      "_float4", "_float8", "_timestamp", "_date", "_uuid"} -> "array"
      [] udtName \in {"hstore", "record"} -> "object"
      [] OTHER -> "unknown"

\* x || fallback of a string or null
OrString(x, fallback) == IF x = Null \/ x = Str(<<>>) THEN fallback ELSE x

ProcessedColumns(columns) ==
    [k \in 1..Len(columns) |->
        [name |-> columns[k].column_name,
         dataType |-> columns[k].data_type,
         unifiedType |-> mapPostgresTypeToUnifiedType(columns[k].data_type,
                                                      columns[k].udt_name),
         isNullable |-> columns[k].is_nullable = "YES",
         defaultValue |-> OrString(columns[k].column_default, Undefined)]]

\* foreign keys whose actions are spelled as clauses of the constraint
ProcessedForeignKeysAsClauses(foreignKeys) ==
    [k \in 1..Len(foreignKeys) |->
        [column |-> foreignKeys[k].column_name,
         foreignTable |-> foreignKeys[k].foreign_table_name,
         foreignColumn |-> foreignKeys[k].foreign_column_name,
         onDelete |-> "ON DELETE " \o foreignKeys[k].delete_rule,
         onUpdate |-> "ON UPDATE " \o foreignKeys[k].update_rule]]

ProcessedForeignKeys(foreignKeys) ==
    [k \in 1..Len(foreignKeys) |->
        [column |-> foreignKeys[k].column_name,
         foreignTable |-> foreignKeys[k].foreign_table_name,
         foreignColumn |-> foreignKeys[k].foreign_column_name,
         onDelete |-> foreignKeys[k].delete_rule,
         onUpdate |-> foreignKeys[k].update_rule]]

ProcessedConstraints(constraints) ==
    LET IsUnique(c) == c.constraint_type = "UNIQUE"
        IsCheck(c) == c.constraint_type = "CHECK"
        uniqueConstraints == SelectSeq(constraints, IsUnique)
        checkConstraints == SelectSeq(constraints, IsCheck)
    IN  [k \in 1..Len(uniqueConstraints) |->
            [name |-> uniqueConstraints[k].constraint_name, type |-> "UNIQUE",
             content |-> uniqueConstraints[k].constraint_definition]]
        \o [k \in 1..Len(checkConstraints) |->
            [name |-> checkConstraints[k].constraint_name, type |-> "CHECK",
             content |-> OrString(checkConstraints[k].constraint_definition,
                                  checkConstraints[k].check_clause)]]

UniqueKeyColumns(constraints) ==
    LET IsUnique(c) == c.constraint_type = "UNIQUE"
        uniqueKeys == SelectSeq(constraints, IsUnique)
    IN  [k \in 1..Len(uniqueKeys) |-> uniqueKeys[k].column_name]

\* the four catalog queries run one after another; lostAt is the query at
\* which the connection is lost (0: it is not)
getTableSchema(tableName, lostAt) ==
    /\ call.op = "idle"
    /\ UNCHANGED tasks
    /\ LET params == <<Str(config[1]), Str(tableName)>>
           Stmts(n) == [k \in 1..n |-> Statement(GetTableSchemaQueries[k], params)]
           Results == [k \in 1..Len(GetTableSchemaQueries) |->
                          ExecCatalog(GetTableSchemaQueries[k], params, tables, <<>>)]
           Reject(issued, message) ==
               Rejected("getTableSchema", tableName, <<>>, NoOptions, issued, message)
       IN  IF NotConnected(db)
           THEN call' = Reject(<<>>, "Database not connected")
           ELSE IF config = <<>>
           THEN call' = Reject(<<>>, "Database config not set")
           ELSE \E out \in {Results} :
                \E failed \in {{k \in DOMAIN out : out[k].err # ""}} :
                IF lostAt # 0 /\ \A k \in failed : lostAt <= k
                THEN call' = Reject(Stmts(lostAt), ConnectionLost)
                ELSE IF failed # {}
                THEN \E k \in failed :
                         /\ \A j \in failed : k <= j
                         /\ call' = Reject(Stmts(k), out[k].err)
                ELSE call' = Resolved("getTableSchema", tableName, <<>>, NoOptions,
                                      Stmts(Len(out)),
                                      [name |-> tableName,
                                       columns |-> ProcessedColumns(out[1].rows),
                                       primaryKey |-> [k \in 1..Len(out[2].rows) |->
                                                          out[2].rows[k].column_name],
                                       uniqueKeys |-> UniqueKeyColumns(out[4].rows),
                                       foreignKeys |-> ProcessedForeignKeys(out[3].rows),
                                       constraints |-> ProcessedConstraints(out[4].rows)])
    /\ UNCHANGED <<db, config, pools, tables, serial>>

\* a filter that keeps every entry, undefined ones included
AllFields(record) == record

\* of record, the entries whose value is not undefined
FilteredRecord(record) ==
    LET Defined(f) == f.v # Undefined
    IN  SelectSeq(record, Defined)

KeysOf(object) == [k \in 1..Len(object) |-> object[k].k]
ValuesOf(object) == [k \in 1..Len(object) |-> object[k].v]

\* columns.map((_, i) => `$${i + 1}`).join(', ')
ValuePlaceholders(columns) ==
    Join([k \in 1..Len(columns) |-> <<Dollar(k)>>], <<", ">>)

CreateRecordQuery(schema, tableName, columns) ==
    <<"INSERT INTO ", Q>> \o schema \o <<Q, ".", Q>> \o tableName \o <<Q>>
    \o <<" (">> \o Join(columns, <<", ">>)
    \o <<") VALUES (">> \o ValuePlaceholders(columns) \o <<") RETURNING *">>

createRecord(tableName, record) ==
    /\ call.op = "idle"
    /\ UNCHANGED tasks
    /\ serial <= MaxSerial
    /\ LET filteredRecord == FilteredRecord(record)
           columns == KeysOf(filteredRecord)
           values == ValuesOf(filteredRecord)
           query == CreateRecordQuery(config[1], tableName, columns)
           Reject(stmts, message) ==
               Rejected("createRecord", tableName, record, NoOptions, stmts, message)
       IN  IF NotConnected(db)
           THEN /\ call' = Reject(<<>>, "Database not connected")
                /\ UNCHANGED <<tables, serial>>
           ELSE IF config = <<>>
           THEN /\ call' = Reject(<<>>, "Database config not set")
                /\ UNCHANGED <<tables, serial>>
           ELSE IF Len(columns) = 0
           THEN /\ call' = Reject(<<>>, Wrap("Failed to create record",
                                             "Record cannot be empty"))
                /\ UNCHANGED <<tables, serial>>
           ELSE \E out \in {db_one(Exec(query, values, tables, serial, <<>>))} :
                /\ tables' = out.tables
                /\ serial' = out.serial
                /\ call' = IF out.err # ""
                           THEN Reject(<<Statement(query, values)>>,
                                       Wrap("Failed to create record", out.err))
                           ELSE Resolved("createRecord", tableName, record, NoOptions,
                                         <<Statement(query, values)>>, out.rows[1])
    /\ UNCHANGED <<db, config, pools>>

\* whereColumns.forEach: the values bound so far are those of the entries
\* before this one that are not null
RECURSIVE WhereValues(_)
WhereValues(where) ==
    IF where = <<>> THEN <<>>
    ELSE (IF Head(where).v = Null THEN <<>> ELSE <<Head(where).v>>)
         \o WhereValues(Tail(where))

\* a clause that compares with a placeholder whatever the value is
WhereClauseEq(where, k) == as_name(where[k].k) \o <<" = ", Dollar(k)>>

\* a clause whose placeholder is numbered by the position of the field
WhereClauseByPosition(where, k) ==
    IF where[k].v = Null
    THEN as_name(where[k].k) \o <<" IS NULL">>
    ELSE as_name(where[k].k) \o <<" = ", Dollar(k)>>

WhereClauseOf(where, k) ==
    IF where[k].v = Null
    THEN as_name(where[k].k) \o <<" IS NULL">>
    ELSE as_name(where[k].k)
         \o <<" = ", Dollar(Len(WhereValues(SubSeq(where, 1, k))))>>

WhereClauses(where) == [k \in 1..Len(where) |-> WhereClauseOf(where, k)]

DeleteRecordQuery(schema, tableName, where) ==
    <<"DELETE FROM ">> \o as_name(schema) \o <<".">> \o as_name(tableName)
    \o <<" WHERE ">> \o Join(WhereClauses(where), <<" AND ">>)
    \o <<" RETURNING 1 AS deleted">>

deleteRecord(tableName, where) ==
    /\ call.op = "idle"
    /\ UNCHANGED tasks
    /\ LET whereValues == WhereValues(where)
           query == DeleteRecordQuery(config[1], tableName, where)
           Reject(stmts, message) ==
               Rejected("deleteRecord", tableName, where, NoOptions, stmts, message)
       IN  IF NotConnected(db)
           THEN /\ call' = Reject(<<>>, "Database not connected")
                /\ UNCHANGED <<tables, serial>>
           ELSE IF config = <<>>
           THEN /\ call' = Reject(<<>>, "Database config not set")
                /\ UNCHANGED <<tables, serial>>
           ELSE IF Len(where) = 0
           THEN /\ call' = Reject(<<>>, Wrap("Failed to delete record",
                                             "Where conditions cannot be empty"))
                /\ UNCHANGED <<tables, serial>>
           ELSE \E out \in {db_oneOrNone(Exec(query, whereValues, tables, serial, <<>>))} :
                /\ tables' = out.tables
                /\ serial' = out.serial
                /\ call' = IF out.err # ""
                           THEN Reject(<<Statement(query, whereValues)>>,
                                       Wrap("Failed to delete record", out.err))
                           ELSE Resolved("deleteRecord", tableName, where, NoOptions,
                                         <<Statement(query, whereValues)>>,
                                         Len(out.rows) > 0)
    /\ UNCHANGED <<db, config, pools>>

\* what `${value}` of a template literal makes of a value
RECURSIVE TemplateString(_)
TemplateString(v) ==
    CASE v.t = "str" -> v.s
      [] v.t = "num" -> <<NumText(v.n)>>
      [] v.t = "null" -> <<"n", "u", "l", "l">>
      [] v.t = "undefined" -> <<"u", "n", "d", "e", "f", "i", "n", "e", "d">>
      [] v.t = "arr" -> Join([k \in 1..Len(v.a) |-> TemplateString(v.a[k])], <<",">>)

\* the operators the switch of getTableData has a case for
SupportedOperators ==
    {"eq", "neq", "gt", "gte", "lt", "lte", "in", "nin", "like", "contains",
     "isNull", "isNotNull"}

\* the comparison token of the operators that bind filter.value as it is
CompareToken(operator) ==
    CASE operator = "eq" -> " = "
      [] operator = "neq" -> " <> "
      [] operator = "gt" -> " > "
      [] operator = "gte" -> " >= "
      [] operator = "lt" -> " < "
      [] operator = "lte" -> " <= "
      [] operator = "like" -> " LIKE "

\* one pass of the loop over options.filters: queryParams and filterClauses
\* after the filter, or the error the default case throws
CompileFilter(filter, queryParams, filterClauses) ==
    LET safeColumnName == as_name(filter.column)
        Bound(value, clause) ==
            [err |-> "", params |-> Append(queryParams, value),
             clauses |-> Append(filterClauses, safeColumnName \o clause)]
        Unbound(clause) ==
            [err |-> "", params |-> queryParams,
             clauses |-> Append(filterClauses, safeColumnName \o clause)]
        Skipped == [err |-> "", params |-> queryParams, clauses |-> filterClauses]
        n == Len(queryParams) + 1
    IN  CASE filter.operator = "eq" /\ filter.value = Null -> Unbound(<<" IS NULL">>)
          [] filter.operator = "neq" /\ filter.value = Null -> Unbound(<<" IS NOT NULL">>)
          [] filter.operator \in {"eq", "neq"} /\ filter.value # Null ->
                Bound(filter.value, <<CompareToken(filter.operator), Dollar(n)>>)
          [] filter.operator \in {"gt", "gte", "lt", "lte", "like"} ->
                Bound(filter.value, <<CompareToken(filter.operator), Dollar(n)>>)
          [] filter.operator = "in" ->
                IF filter.value.t = "arr"
                THEN Bound(filter.value, <<" = ANY(", Dollar(n), ")">>)
                ELSE Skipped
          [] filter.operator = "nin" ->
                IF filter.value.t = "arr"
                THEN Bound(filter.value, <<" != ALL(", Dollar(n), ")">>)
                ELSE Skipped
          [] filter.operator = "contains" ->
                Bound(Str(<<"%">> \o TemplateString(filter.value) \o <<"%">>),
                      <<" LIKE ", Dollar(n)>>)
          [] filter.operator = "isNull" -> Unbound(<<" IS NULL">>)
          [] filter.operator = "isNotNull" -> Unbound(<<" IS NOT NULL">>)
          [] OTHER ->
                [err |-> "Unsupported filter operator: " \o filter.operator,
                 params |-> queryParams, clauses |-> filterClauses]

\* a loop that passes over a filter it has no case for
RECURSIVE CompileFiltersLenient(_, _, _)
CompileFiltersLenient(filters, queryParams, filterClauses) ==
    IF filters = <<>>
    THEN [err |-> "", params |-> queryParams, clauses |-> filterClauses]
    ELSE LET one == CompileFilter(Head(filters), queryParams, filterClauses)
         IN  CompileFiltersLenient(Tail(filters), one.params, one.clauses)

\* for (const filter of options.filters)
RECURSIVE CompileFilters(_, _, _)
CompileFilters(filters, queryParams, filterClauses) ==
    IF filters = <<>>
    THEN [err |-> "", params |-> queryParams, clauses |-> filterClauses]
    ELSE LET one == CompileFilter(Head(filters), queryParams, filterClauses)
         IN  IF one.err # "" THEN one
             ELSE CompileFilters(Tail(filters), one.params, one.clauses)

\* a WHERE clause whose fragments are joined with OR
CompileWhereOr(options) ==
    LET c == CompileFilters(options.filters, <<>>, <<>>)
    IN  IF options.hasFilters /\ Len(options.filters) > 0
        THEN [err |-> c.err, params |-> c.params,
              text |-> IF Len(c.clauses) > 0
                       THEN <<"WHERE ">> \o Join(c.clauses, <<" OR ">>)
                       ELSE <<>>]
        ELSE [err |-> "", params |-> <<>>, text |-> <<>>]

\* whereClause and queryParams of getTableData
CompileWhere(options) ==
    LET c == CompileFilters(options.filters, <<>>, <<>>)
    IN  IF options.hasFilters /\ Len(options.filters) > 0
        THEN [err |-> c.err, params |-> c.params,
              text |-> IF Len(c.clauses) > 0
                       THEN <<"WHERE ">> \o Join(c.clauses, <<" AND ">>)
                       ELSE <<>>]
        ELSE [err |-> "", params |-> <<>>, text |-> <<>>]

\* sort.direction.toUpperCase()
ToUpperCase(direction) ==
    CASE direction \in {"asc", "Asc", "ASC"} -> "ASC"
      [] direction \in {"desc", "Desc", "DESC"} -> "DESC"
      [] OTHER -> direction

\* a sort term that puts nulls first whatever the direction
OrderByTermNullsFirst(sort) ==
    LET direction == IF ToUpperCase(sort.direction) = "DESC" THEN "DESC" ELSE "ASC"
    IN  as_name(sort.column) \o <<" ", direction, " ", "NULLS FIRST">>

OrderByTerm(sort) ==
    LET direction == IF ToUpperCase(sort.direction) = "DESC" THEN "DESC" ELSE "ASC"
        nullsPosition == IF direction = "DESC" THEN "NULLS LAST" ELSE "NULLS FIRST"
    IN  as_name(sort.column) \o <<" ", direction, " ", nullsPosition>>

\* an ORDER BY clause that is never written
NoOrderByClause(options) == <<>>

OrderByClause(options) ==
    IF Len(options.orderBy) > 0
    THEN <<"ORDER BY ">>
         \o Join([k \in 1..Len(options.orderBy) |-> OrderByTerm(options.orderBy[k])],
                 <<", ">>)
    ELSE <<>>

\* x || fallback for a number or undefined x
OrElse(x, fallback) ==
    IF x = Undefined \/ x = Null \/ x = Num(0) THEN fallback ELSE x.n

PerPage(options) == OrElse(options.perPage, 10)
Page(options) == OrElse(options.page, 1)
\* an offset that takes page for the number of pages to pass over
OffsetFromPage(options) == Page(options) * PerPage(options)

Offset(options) == (Page(options) - 1) * PerPage(options)

\* a data statement that always reads from the first row on
DataQueryFirstPage(schema, tableName, whereClause, orderByClause, perPage, offset) ==
    <<"SELECT * FROM ">> \o as_name(schema) \o <<".">> \o as_name(tableName)
    \o <<" ">> \o whereClause
    \o <<" ">> \o orderByClause
    \o <<" LIMIT ", NumText(perPage), " OFFSET ", NumText(0)>>

DataQuery(schema, tableName, whereClause, orderByClause, perPage, offset) ==
    <<"SELECT * FROM ">> \o as_name(schema) \o <<".">> \o as_name(tableName)
    \o <<" ">> \o whereClause
    \o <<" ">> \o orderByClause
    \o <<" LIMIT ", NumText(perPage), " OFFSET ", NumText(offset)>>

\* a count statement that counts the whole table
CountQueryUnfiltered(schema, tableName, whereClause) ==
    <<"SELECT COUNT(*) as total FROM ">> \o as_name(schema) \o <<".">>
    \o as_name(tableName) \o <<" ">>

CountQuery(schema, tableName, whereClause) ==
    <<"SELECT COUNT(*) as total FROM ">> \o as_name(schema) \o <<".">>
    \o as_name(tableName) \o <<" ">> \o whereClause

\* parseInt(text, 10) of the text of an integer
ParseInt(text) == IntOf(text)

\* a page count that has a last page even when there is nothing to show
TotalPagesAtLeastOne(total, perPage) == (total \div perPage) + 1

\* Math.ceil(total / perPage) || 0
TotalPages(total, perPage) ==
    IF perPage > 0 THEN (total + perPage - 1) \div perPage
    ELSE 0 - (total \div (0 - perPage))

\* what a getTableData call comes to in the current state, the scan
\* delivering the rows in the order heap: one outcome, or one per rejection
\* when both statements of Promise.all fail
getTableDataOutcomes(tableName, options, heap) ==
    LET Reject(issued, message) ==
            Rejected("getTableData", tableName, <<>>, options, issued, message)
        Resolve(stmts, rows, total, page, perPage) ==
            Resolved("getTableData", tableName, <<>>, options, stmts,
                     [data |-> rows, total |-> total,
                      page |-> page, perPage |-> perPage,
                      totalPages |-> TotalPages(total, perPage)])
        Settle(stmts, data, countResult) ==
            IF data.err # "" \/ countResult.err # ""
            THEN {Reject(stmts, Wrap("Failed to fetch table data", e)) :
                     e \in {data.err, countResult.err} \ {""}}
            ELSE {Resolve(stmts, data.rows, ParseInt(countResult.rows[1].total),
                          Page(options), PerPage(options))}
        Fetch(where, stmts) ==
            Settle(stmts,
                   Exec(stmts[1].text, where.params, tables, serial, heap),
                   db_one(Exec(stmts[2].text, where.params, tables, serial, heap)))
        Compiled(where) ==
            IF where.err # ""
            THEN {Reject(<<>>, Wrap("Failed to fetch table data", where.err))}
            ELSE Fetch(where,
                       <<Statement(DataQuery(config[1], tableName, where.text,
                                             OrderByClause(options), PerPage(options),
                                             Offset(options)),
                                   where.params),
                         Statement(CountQuery(config[1], tableName, where.text),
                                   where.params)>>)
    IN  IF NotConnected(db)
        THEN {Reject(<<>>, "Database not connected")}
        ELSE IF config = <<>>
        THEN {Reject(<<>>, "Database config not set")}
        ELSE Compiled(CompileWhere(options))

getTableData(tableName, options, heap) ==
    /\ call.op = "idle"
    /\ UNCHANGED tasks
    /\ \E outcome \in getTableDataOutcomes(tableName, options, heap) :
           call' = outcome
    /\ UNCHANGED <<db, config, pools, tables, serial>>

\* the stub: whatever the arguments, nothing is issued and undefined comes back
updateRecord(tableName, where, record) ==
    /\ call.op = "idle"
    /\ UNCHANGED tasks
    /\ call' = Resolved("updateRecord", tableName, where, NoOptions, <<>>, Undefined)
    /\ UNCHANGED <<db, config, pools, tables, serial>>

\* the stub: whatever the arguments, nothing is issued and [] comes back
executeStatement(statement, params) ==
    /\ call.op = "idle"
    /\ UNCHANGED tasks
    /\ call' = Resolved("executeStatement", <<>>, params, NoOptions, <<>>, <<>>)
    /\ UNCHANGED <<db, config, pools, tables, serial>>

\* the orders in which a scan may deliver the rows of a table
Heaps(tableName) ==
    IF tableName \in DOMAIN tables THEN Orderings(tables[tableName]) ELSE {<<>>}

\* the caller takes the outcome of the completed call
Return ==
    /\ call.op # "idle"
    /\ UNCHANGED tasks
    /\ call' = Idle
    /\ UNCHANGED <<db, config, pools, tables, serial>>

Next ==
    \/ Return
    \/ \E schema \in Schemas : connect(schema)
    \/ disconnect
    \/ \E lost \in BOOLEAN : healthCheck(lost)
    \/ \E names \in Orderings(DOMAIN tables), lost \in BOOLEAN : getTableList(names, lost)
    \/ \E tableName \in TableNames \cup {TableU} :
           \E lostAt \in 0..Len(GetTableSchemaQueries) :
               getTableSchema(tableName, lostAt)
    \/ \E tableName \in TableNames, record \in Objects : createRecord(tableName, record)
    \/ \E tableName \in TableNames, where \in Objects : deleteRecord(tableName, where)
    \/ \E tableName \in TableNames, options \in SomeOptions :
           \E heap \in Heaps(tableName) : getTableData(tableName, options, heap)
    \/ \E tableName \in TableNames, where \in {<<>>, <<[k |-> ColB, v |-> Num(1)]>>} :
           \E record \in {<<>>, <<[k |-> ColA, v |-> Num(1)]>>} :
               updateRecord(tableName, where, record)
    \/ \E statement \in {HealthCheckQuery, GetTableListQuery} :
           \E params \in {<<>>, <<Str(SchemaS)>>} : executeStatement(statement, params)

Spec == Init /\ [][Next]_vars

----------------------------------------------------------------------------
(* The adapter of src/api: introspection with the names written into the
   statement text *)

ApiSchemas == Schemas \cup {<<"s", A>>}
ApiTableNames == TableNames \cup {<<"t", A>>}

ApiGetTableListQuery(schema) == <<TablesHead, A>> \o schema \o <<A, TablesTail>>

api_getTableList(names, lost) ==
    /\ call.op = "idle"
    /\ UNCHANGED tasks
    /\ LET query == ApiGetTableListQuery(config[1])
           stmts == <<Statement(query, <<>>)>>
           Rows == ExecCatalog(query, <<>>, tables, names)
           Reject(issued, message) ==
               Rejected("getTableList", <<>>, <<>>, NoOptions, issued, message)
       IN  IF NotConnected(db)
           THEN call' = Reject(<<>>, "Database not connected")
           ELSE IF config = <<>>
           THEN call' = Reject(<<>>, "Database config not set")
           ELSE IF lost
           THEN call' = Reject(stmts, ConnectionLost)
           ELSE \E out \in {Rows} :
                IF out.err # ""
                THEN call' = Reject(stmts, out.err)
                ELSE call' = Resolved("getTableList", <<>>, <<>>, NoOptions, stmts,
                                      [k \in 1..Len(out.rows) |-> out.rows[k].table_name])
    /\ UNCHANGED <<db, config, pools, tables, serial>>

\* '${this.config.connection.schema}' ... '${tableName}'
ApiNames(head, schema, mid, tableName) ==
    <<head, A>> \o schema \o <<A, mid, A>> \o tableName \o <<A>>

ApiGetTableSchemaQueries(schema, tableName) ==
    <<ApiNames(ColumnsHead, schema, ColumnsMid, tableName) \o <<ColumnsTail>>,
      ApiNames(PrimaryKeyHead, schema, ConstraintMid, tableName),
      ApiNames(ForeignKeyHead, schema, ConstraintMid, tableName),
      ApiNames(ConstraintHead, schema, ConstraintRel, tableName)
          \o ApiNames(ConstraintSelect, schema, ConstraintMid, tableName)
          \o <<ConstraintTail>>>>

api_getTableSchema(tableName, lostAt) ==
    /\ call.op = "idle"
    /\ UNCHANGED tasks
    /\ LET queries == ApiGetTableSchemaQueries(config[1], tableName)
           Stmts(n) == [k \in 1..n |-> Statement(queries[k], <<>>)]
           Results == [k \in 1..Len(queries) |->
                          ExecCatalog(queries[k], <<>>, tables, <<>>)]
           Reject(issued, message) ==
               Rejected("getTableSchema", tableName, <<>>, NoOptions, issued, message)
       IN  IF NotConnected(db)
           THEN call' = Reject(<<>>, "Database not connected")
           ELSE IF config = <<>>
           THEN call' = Reject(<<>>, "Database config not set")
           ELSE \E out \in {Results} :
                \E failed \in {{k \in DOMAIN out : out[k].err # ""}} :
                IF lostAt # 0 /\ \A k \in failed : lostAt <= k
                THEN call' = Reject(Stmts(lostAt), ConnectionLost)
                ELSE IF failed # {}
                THEN \E k \in failed :
                         /\ \A j \in failed : k <= j
                         /\ call' = Reject(Stmts(k), out[k].err)
                ELSE call' = Resolved("getTableSchema", tableName, <<>>, NoOptions,
                                      Stmts(Len(out)),
                                      [name |-> tableName,
                                       columns |-> ProcessedColumns(out[1].rows),
                                       primaryKey |-> [k \in 1..Len(out[2].rows) |->
                                                          out[2].rows[k].column_name],
                                       uniqueKeys |-> UniqueKeyColumns(out[4].rows),
                                       foreignKeys |-> ProcessedForeignKeys(out[3].rows),
                                       constraints |-> ProcessedConstraints(out[4].rows)])
    /\ UNCHANGED <<db, config, pools, tables, serial>>

NextApi ==
    \/ Return
    \/ \E schema \in ApiSchemas : connect(schema)
    \/ disconnect
    \/ \E lost \in BOOLEAN : healthCheck(lost)
    \/ \E names \in Orderings(DOMAIN tables), lost \in BOOLEAN :
           api_getTableList(names, lost)
    \/ \E tableName \in ApiTableNames, lostAt \in 0..Len(GetTableSchemaQueries) :
           api_getTableSchema(tableName, lostAt)

SpecApi == Init /\ [][NextApi]_vars

----------------------------------------------------------------------------
(* getTableData over many filter lists, from a connected adapter and a
   table of two rows *)

QueryOperators == SupportedOperators \cup {"startsWith", "endsWith"}

\* value?: DatabaseValue, or an array of them
QueryValues == {Undefined, Null, Num(1), Str(<<"a">>), Arr(<<Num(1)>>)}

\* every operator with every value on column a, and two filters on column b
QueryFilters ==
    [column : {ColA}, operator : QueryOperators, value : QueryValues]
    \cup {[column |-> ColB, operator |-> "eq", value |-> Num(1)],
          [column |-> ColB, operator |-> "isNull", value |-> Null]}

\* no filters given, or a list of up to two filters
QueryOptions ==
    {NoOptions}
    \cup {[NoOptions EXCEPT !.hasFilters = TRUE, !.filters = fs] :
             fs \in {<<>>} \cup {<<f>> : f \in QueryFilters}
                    \cup {<<fg[1], fg[2]>> : fg \in QueryFilters \X QueryFilters}}

\* after connect({schema: 's'}), createRecord('t', {a: 1, b: 1}) and
\* createRecord('t', {a: null, b: -1})
InitQuery ==
    /\ db = 1
    /\ tasks = <<>>
    /\ config = <<SchemaS>>
    /\ pools = <<[schema |-> SchemaS, open |-> TRUE]>>
    /\ tables = [n \in {TableT, TableU} |->
                    IF n = TableU
                    THEN {[c \in Range(Columns) |-> IF c = ColA THEN Null ELSE Num(1)]}
                    ELSE {[c \in Range(Columns) |-> Num(1)],
                          [c \in Range(Columns) |->
                              IF c = ColA THEN Null
                              ELSE IF c = ColI THEN Num(2) ELSE Num(-1)]}]
    /\ serial = 3
    /\ call = Idle

NextQuery ==
    \/ Return
    \/ /\ call.op = "idle"
       /\ \E options \in QueryOptions : \E heap \in Heaps(TableT) :
              getTableData(TableT, options, heap)
    \/ \E where \in Objects : deleteRecord(TableT, where)

SpecQuery == InitQuery /\ [][NextQuery]_vars

----------------------------------------------------------------------------
(* getTableData over pages and sort orders, against five stored rows *)

\* perPage?: number, page?: number, orderBy?: { column, direction }[],
\* filters?: FilterValue[], the filters leaving three rows, no row, or making
\* the engine refuse both statements
PageOptions ==
    LET perPages == {Undefined, Num(0), Num(2), Num(-1)}
        pages == {Undefined, Num(0), Num(2), Num(3), Num(-1)}
        orders ==
            {<<>>,
             <<[column |-> ColA, direction |-> "asc"]>>,
             <<[column |-> ColA, direction |-> "desc"]>>,
             <<[column |-> ColA, direction |-> "desc"],
               [column |-> ColB, direction |-> "asc"]>>,
             <<[column |-> ColB, direction |-> "desc"]>>}
        filters ==
            {<<[column |-> ColA, operator |-> "isNotNull", value |-> Undefined]>>,
             <<[column |-> ColB, operator |-> "gt", value |-> Num(5)]>>,
             <<[column |-> ColA, operator |-> "like", value |-> Str(<<"a">>)]>>}
    IN  [perPage : perPages, page : pages, orderBy : orders,
         hasFilters : {FALSE}, filters : {<<>>}]
        \cup [perPage : perPages, page : pages, orderBy : orders,
              hasFilters : {TRUE}, filters : filters]

\* after connect({schema: 's'}) and createRecord('t', {a: .., b: ..}) five
\* times: the rows (i, a, b) of t are (1, 1, 1), (2, NULL, 2), (3, 1, 3),
\* (4, 2, 4) and (5, NULL, 5)
InitPage ==
    /\ db = 1
    /\ tasks = <<>>
    /\ config = <<SchemaS>>
    /\ pools = <<[schema |-> SchemaS, open |-> TRUE]>>
    /\ tables = [n \in {TableT, TableU} |->
                    IF n = TableU THEN {}
                    ELSE {[c \in Range(Columns) |->
                              IF c = ColI THEN Num(r[1])
                              ELSE IF c = ColA THEN r[2] ELSE Num(r[3])] :
                          r \in {<<1, Num(1), 1>>, <<2, Null, 2>>, <<3, Num(1), 3>>,
                                 <<4, Num(2), 4>>, <<5, Null, 5>>}}]
    /\ serial = 6
    /\ call = Idle

NextPage ==
    \/ Return
    \/ /\ call.op = "idle"
       /\ \E heap \in Heaps(TableT) : \E options \in PageOptions :
              getTableData(TableT, options, heap)

SpecPage == InitPage /\ [][NextPage]_vars

----------------------------------------------------------------------------
(* getTableData called again with the arguments of the call just completed *)

\* the caller repeats the completed getTableData call
getTableDataAgain(heap) ==
    /\ call.op = "getTableData"
    /\ UNCHANGED tasks
    /\ \E outcome \in getTableDataOutcomes(call.table, call.options, heap) :
           call' = outcome
    /\ UNCHANGED <<db, config, pools, tables, serial>>

NextRepeat ==
    \/ Return
    \/ /\ call.op = "idle"
       /\ \E heap \in Heaps(TableT) :
              \E options \in {o \in PageOptions :
                                 o.perPage = Num(2) /\ o.page \in {Undefined, Num(2), Num(3)}} :
                  getTableData(TableT, options, heap)
    \/ /\ call.op = "getTableData"
       /\ \E heap \in Heaps(call.table) : getTableDataAgain(heap)

SpecRepeat == InitPage /\ [][NextRepeat]_vars

----------------------------------------------------------------------------
(* Statement text seen from outside: what is left of it once the quoted
   identifiers are taken out, and the identifiers themselves *)

\* the tokens of text from p on that are not part of a well-formed quoted
\* identifier
RECURSIVE Residue(_, _)
Residue(text, p) ==
    IF p > Len(text) THEN <<>>
    ELSE LET id == ScanQuoted(text, p + 1, <<>>)
         IN  IF text[p] = Q /\ id.ok
             THEN Residue(text, id.next)
             ELSE <<text[p]>> \o Residue(text, p + 1)

\* the names of the well-formed quoted identifiers of text from p on
RECURSIVE QuotedNames(_, _)
QuotedNames(text, p) ==
    IF p > Len(text) THEN <<>>
    ELSE LET id == ScanQuoted(text, p + 1, <<>>)
         IN  IF text[p] = Q /\ id.ok
             THEN <<id.name>> \o QuotedNames(text, id.next)
             ELSE QuotedNames(text, p + 1)

\* the pieces of the three statement templates that no caller supplies
TemplateTokens ==
    {"INSERT INTO ", ".", " (", ", ", ") VALUES (", ") RETURNING *",
     "DELETE FROM ", " WHERE ", " AND ", " RETURNING 1 AS deleted",
     "SELECT * FROM ", "SELECT COUNT(*) as total FROM ", " ", "WHERE ",
     "ORDER BY ", "ASC", "DESC", "NULLS FIRST", "NULLS LAST",
     " LIMIT ", " OFFSET ", ")"}
    \cup CompareTokens \cup ArrayTokens \cup UnaryTokens

CrudOps == {"createRecord", "deleteRecord", "getTableData"}

\* the paging numbers that come from the adapter's own defaults
DefaultPaging(options) ==
    (IF options.perPage = Undefined THEN {NumText(PerPage(NoOptions))} ELSE {})
    \cup (IF options.page = Undefined THEN {NumText(Offset(NoOptions))} ELSE {})

\* the names a completed CRUD call has to place into statement k
NamesPlaced(c, k) ==
    LET Compiled(f) == ~(f.operator \in {"in", "nin"} /\ f.value.t # "arr")
        filters == SelectSeq(c.options.filters, Compiled)
        filterColumns == [j \in 1..Len(filters) |-> filters[j].column]
        sortColumns == [j \in 1..Len(c.options.orderBy) |-> c.options.orderBy[j].column]
    IN  <<config[1], c.table>>
        \o (CASE c.op = "createRecord" -> KeysOf(FilteredRecord(c.object))
              [] c.op = "deleteRecord" -> KeysOf(c.object)
              [] c.op = "getTableData" ->
                    IF c.options.hasFilters THEN filterColumns ELSE <<>>)
        \o (IF c.op = "getTableData" /\ k = 1 THEN sortColumns ELSE <<>>)

----------------------------------------------------------------------------
(* Claims *)

\* C1: in every statement compiled by getTableData, createRecord and
\* deleteRecord, what is in the text besides quoted identifiers is fixed
\* template text and placeholders: no record key, no where or filter value
\* and no page/perPage input is written into the text.
C1_OnlyQuotedIdentifiersInText ==
    call.op \in CrudOps =>
        \A k \in 1..Len(call.stmts) :
            Range(Residue(call.stmts[k].text, 1))
                \subseteq TemplateTokens \cup Range(PlaceholderTokens)
                          \cup DefaultPaging(call.options)

\* C2: every schema, table and column name that createRecord, deleteRecord
\* and getTableData place into statement text stands there as a quoted
\* identifier with its embedded quotes doubled, and no character of a name
\* stands outside a quoted identifier.
C2_EveryNameQuoted ==
    call.op \in CrudOps =>
        \A k \in 1..Len(call.stmts) :
            /\ QuotedNames(call.stmts[k].text, 1) = NamesPlaced(call, k)
            /\ Range(Residue(call.stmts[k].text, 1)) \cap NameChars = {}

\* C3: getTableList and getTableSchema hand the schema name and the table
\* name to the engine as bound parameters: no character of a name, and no
\* string literal, stands in the text of an introspection statement, so the
\* text is the same whatever the names are.
C3_IntrospectionNamesBound ==
    call.op \in {"getTableList", "getTableSchema"} =>
        \A k \in 1..Len(call.stmts) :
            /\ Range(call.stmts[k].text) \cap (NameChars \cup {A}) = {}
            /\ call.stmts[k].params =
                   IF call.op = "getTableList" THEN <<Str(config[1])>>
                   ELSE <<Str(config[1]), Str(call.table)>>

\* the operations that refuse to run without a connection
GuardedOps ==
    {"getTableList", "getTableSchema", "createRecord", "deleteRecord", "getTableData"}

\* C4: while the adapter has no active connection, each of getTableList,
\* getTableSchema, createRecord, deleteRecord and getTableData fails with
\* exactly 'Database not connected' and issues no statement; while it has
\* one (again), none of them fails with that message.
C4_NotConnected ==
    call.op \in GuardedOps =>
        IF db = 0
        THEN /\ call.status = "error"
             /\ call.message = "Database not connected"
             /\ call.stmts = <<>>
        ELSE call.message # "Database not connected"

\* C4 witness: a call made after disconnect() was refused, the call having
\* reached the engine before the disconnect (table t is no longer empty)
C4_Witness ==
    /\ db = 0
    /\ \E k \in 1..Len(pools) : ~pools[k].open
    /\ tables[TableT] # {}
    /\ call.op = "createRecord"
    /\ call.message = "Database not connected"

\* C5: for every connected call, createRecord with no field left after
\* dropping the undefined ones fails with 'Failed to create record: Record
\* cannot be empty', and deleteRecord with a where map of zero keys fails
\* with 'Failed to delete record: Where conditions cannot be empty'; no
\* statement is executed and the tables are unchanged.
C5_EmptyInput ==
    [][/\ (/\ call'.op = "createRecord"
           /\ db # 0
           /\ \A k \in 1..Len(call'.object) : call'.object[k].v = Undefined)
          => /\ call'.status = "error"
             /\ call'.message = "Failed to create record: Record cannot be empty"
             /\ call'.stmts = <<>>
             /\ tables' = tables
       /\ (/\ call'.op = "deleteRecord"
           /\ db # 0
           /\ Len(call'.object) = 0)
          => /\ call'.status = "error"
             /\ call'.message = "Failed to delete record: Where conditions cannot be empty"
             /\ call'.stmts = <<>>
             /\ tables' = tables]_vars

\* C5 witness: a connected createRecord whose record has fields, all of them
\* undefined, was refused as empty
C5_Witness ==
    /\ db # 0
    /\ call.op = "createRecord"
    /\ Len(call.object) > 0
    /\ call.message = "Failed to create record: Record cannot be empty"

\* the rows of a table a where map selects: every field matches, a null
\* field by being NULL, any other by equality
Selected(rows, where) ==
    {r \in rows :
        \A k \in 1..Len(where) :
            IF where[k].v = Null THEN r[where[k].k] = Null
            ELSE r[where[k].k] = where[k].v}

\* a deleteRecord that reaches an existing table with a where map over
\* existing columns
DeleteApplies(c) ==
    /\ c.op = "deleteRecord"
    /\ db # 0
    /\ config = <<SchemaS>>
    /\ c.table \in DOMAIN tables
    /\ Len(c.object) > 0
    /\ \A k \in 1..Len(c.object) : c.object[k].k \in Range(Columns)

\* C6: a connected deleteRecord with a non-empty where over existing
\* columns returns true if and only if at least one row was removed and
\* false when none matched; it does not throw, however many rows match.
C6_TrueIffRemoved ==
    [][DeleteApplies(call') =>
          /\ call'.status = "ok"
          /\ call'.value = (tables' # tables)]_vars

\* C7: deleteRecord removes exactly the rows for which every provided field
\* matches (a null field by IS NULL, any other by equality) and leaves every
\* other row of the table and every other table unchanged.
C7_DeletesExactlyMatching ==
    [][call'.op = "deleteRecord" =>
          IF DeleteApplies(call')
          THEN tables' = [tables EXCEPT ![call'.table] =
                             @ \ Selected(@, call'.object)]
          ELSE tables' = tables]_vars

\* C7 witness: a deleteRecord with a null field and a non-null field removed
\* a row of t and left another row of t in place
C7_Witness ==
    /\ DeleteApplies(call)
    /\ call.table = TableT
    /\ call.value = TRUE
    /\ \E j, k \in 1..Len(call.object) :
           call.object[j].v = Null /\ call.object[k].v \notin {Null, Undefined}
    /\ tables[TableT] # {}

\* the fields of a record whose value is not undefined, in key order
Kept(record) ==
    LET IsKept(f) == f.v # Undefined
    IN  SelectSeq(record, IsKept)

\* the placeholders of a statement text, in the order they stand in it
PlaceholdersIn(text) ==
    LET IsPlaceholder(tok) == tok \in Range(PlaceholderTokens)
    IN  SelectSeq(text, IsPlaceholder)

\* C8: a createRecord that succeeds inserted exactly the fields of the record
\* whose value is not undefined, in key order, the i-th kept value bound to
\* placeholder $i; a null field is stored as NULL, a column the record does
\* not give keeps its server default, and the returned row is the stored row.
C8_InsertsKeptFields ==
    [][(call'.op = "createRecord" /\ call'.status = "ok") =>
          LET kept == Kept(call'.object)
              row == call'.value
              stmt == call'.stmts[1]
          IN  /\ Len(call'.stmts) = 1
              /\ stmt.params = [k \in 1..Len(kept) |-> kept[k].v]
              /\ PlaceholdersIn(stmt.text) = [k \in 1..Len(kept) |-> Dollar(k)]
              /\ \A k \in 1..Len(kept) :
                     kept[k].k \in DOMAIN row /\ row[kept[k].k] = kept[k].v
              /\ \A c \in DOMAIN row \ {kept[k].k : k \in 1..Len(kept)} :
                     row[c] = DefaultOf(c, serial)
              /\ tables' = [tables EXCEPT ![call'.table] = @ \cup {row}]]_vars

\* what the engine says of a violated constraint
ConstraintMessages ==
    {"violates not-null constraint", "violates check constraint",
     "duplicate key value violates unique constraint"}

\* a record over the columns of an existing table whose row would break the
\* not-null constraint of b, the check constraint of a or the uniqueness of b
Violating(c, rows) ==
    LET kept == Kept(c.object)
        Given(col) == \E k \in 1..Len(kept) : kept[k].k = col
        ValueOf(col) == kept[CHOOSE k \in 1..Len(kept) : kept[k].k = col].v
    IN  /\ \A k \in 1..Len(kept) : kept[k].k \in Range(Columns)
        /\ Len(kept) > 0
        /\ \/ ~Given(ColB)
           \/ ValueOf(ColB) = Null
           \/ Given(ColA) /\ ValueOf(ColA) # Null /\ ValueOf(ColA).n < 0
           \/ \E r \in rows : r[ColB] = ValueOf(ColB)

\* C9: a createRecord that violates a unique, check or not-null constraint
\* throws an Error whose message is 'Failed to create record' followed by the
\* engine's message, and whenever createRecord throws, the tables hold exactly
\* the rows they held before the call.
C9_ConstraintViolation ==
    [][call'.op = "createRecord" =>
          /\ (/\ db # 0
              /\ config = <<SchemaS>>
              /\ call'.table \in DOMAIN tables
              /\ Violating(call', tables[call'.table]))
             => /\ call'.status = "error"
                /\ call'.message \in {"Failed to create record: " \o m :
                                         m \in ConstraintMessages}
          /\ call'.status = "error" => tables' = tables]_vars

\* C9 witness: a second createRecord with the unique value of a stored row was
\* refused, and the first row is still there
C9_Witness ==
    /\ call.op = "createRecord"
    /\ call.message =
           "Failed to create record: duplicate key value violates unique constraint"
    /\ call.table = TableT
    /\ \E r \in tables[TableT] : \E k \in 1..Len(call.object) :
           call.object[k].k = ColB /\ call.object[k].v = r[ColB]

\* the fixed mapping from operator to comparison
FragmentToken(operator) ==
    CASE operator = "eq" -> " = "
      [] operator = "neq" -> " <> "
      [] operator = "gt" -> " > "
      [] operator = "gte" -> " >= "
      [] operator = "lt" -> " < "
      [] operator = "lte" -> " <= "
      [] operator \in {"like", "contains"} -> " LIKE "

UnaryOperators == {"isNull", "isNotNull"}
ArrayOperators == {"in", "nin"}

\* a filter over a supported operator whose value suits it: an array for
\* in/nin, a string for contains, a string or number for the comparisons
WellFormed(f) ==
    /\ f.operator \in SupportedOperators
    /\ f.operator \in ArrayOperators => f.value.t = "arr"
    /\ f.operator = "contains" => f.value.t = "str"
    /\ f.operator \notin ArrayOperators \cup UnaryOperators \cup {"contains"}
           => f.value.t \in {"num", "str"}

\* the values a filter list binds, in input order
RECURSIVE FragmentParams(_)
FragmentParams(filters) ==
    IF filters = <<>> THEN <<>>
    ELSE LET f == Head(filters)
         IN  (IF f.operator \in UnaryOperators THEN <<>>
              ELSE IF f.operator = "contains"
                   THEN <<Str(<<"%">> \o f.value.s \o <<"%">>)>>
              ELSE <<f.value>>)
             \o FragmentParams(Tail(filters))

\* the fragment of the k-th filter of a list
Fragment(filters, k) ==
    LET f == filters[k]
        n == Len(FragmentParams(SubSeq(filters, 1, k)))
    IN  as_name(f.column)
        \o (CASE f.operator = "isNull" -> <<" IS NULL">>
              [] f.operator = "isNotNull" -> <<" IS NOT NULL">>
              [] f.operator = "in" -> <<" = ANY(", Dollar(n), ")">>
              [] f.operator = "nin" -> <<" != ALL(", Dollar(n), ")">>
              [] OTHER -> <<FragmentToken(f.operator), Dollar(n)>>)

\* the WHERE clause a filter list stands for
WhereOf(options) ==
    IF options.hasFilters /\ Len(options.filters) > 0
    THEN <<"WHERE ">>
         \o Join([k \in 1..Len(options.filters) |-> Fragment(options.filters, k)],
                 <<" AND ">>)
    ELSE <<>>

\* C10: for every filter list over the twelve operators with well-formed
\* values, the WHERE clause of both statements of getTableData is the
\* AND-conjunction, in input order, of one fragment per filter by the fixed
\* mapping, with the values bound in that order; with an empty or absent
\* filter list there is no WHERE clause.
C10_WhereIsConjunction ==
    (/\ call.op = "getTableData"
     /\ db # 0
     /\ \A k \in 1..Len(call.options.filters) : WellFormed(call.options.filters[k]))
    => LET from == as_name(config[1]) \o <<".">> \o as_name(call.table) \o <<" ">>
           where == WhereOf(call.options)
           data == <<"SELECT * FROM ">> \o from \o where \o <<" ">>
           params == IF call.options.hasFilters
                     THEN FragmentParams(call.options.filters) ELSE <<>>
       IN  /\ Len(call.stmts) = 2
           /\ SubSeq(call.stmts[1].text, 1, Len(data)) = data
           /\ "WHERE " \notin Range(SubSeq(call.stmts[1].text, Len(data) + 1,
                                           Len(call.stmts[1].text)))
           /\ call.stmts[2].text = <<"SELECT COUNT(*) as total FROM ">> \o from \o where
           /\ call.stmts[1].params = params
           /\ call.stmts[2].params = params

\* C10 witness: a list of two well-formed filters, one unary and one binding
\* an array, was compiled and run
C10_Witness ==
    /\ call.op = "getTableData"
    /\ call.status = "ok"
    /\ Len(call.options.filters) = 2
    /\ call.options.filters[1].operator = "isNotNull"
    /\ call.options.filters[2].operator = "in"
    /\ WellFormed(call.options.filters[2])
    /\ Len(call.value.data) = 1

\* the pieces of text between the separators sep
RECURSIVE SplitAt(_, _, _)
SplitAt(text, sep, acc) ==
    IF text = <<>> THEN <<acc>>
    ELSE IF Head(text) = sep
         THEN <<acc>> \o SplitAt(Tail(text), sep, <<>>)
         ELSE SplitAt(Tail(text), sep, Append(acc, Head(text)))

\* the text of a statement from just after the token tok up to the token
\* stop or the end, empty when tok is not in it
RECURSIVE ClauseBetween(_, _, _, _)
ClauseBetween(text, tok, stop, inside) ==
    IF text = <<>> THEN <<>>
    ELSE IF inside
         THEN IF Head(text) = stop THEN <<>>
              ELSE <<Head(text)>> \o ClauseBetween(Tail(text), tok, stop, TRUE)
         ELSE ClauseBetween(Tail(text), tok, stop, Head(text) = tok)

\* the terms of the WHERE clause of a statement, in the order they stand
WhereTerms(text) ==
    LET clause == ClauseBetween(text, "WHERE ", " ", FALSE)
    IN  IF clause = <<>> THEN <<>> ELSE SplitAt(clause, " AND ", <<>>)

\* the statement compares a column with = or <> to a parameter that reaches
\* the engine as NULL
ComparesToNull(stmt) ==
    \E p \in 1..(Len(stmt.text) - 1) :
        /\ stmt.text[p] \in {" = ", " <> "}
        /\ PlaceholderOf(stmt.text, p + 1) \in 1..Len(stmt.params)
        /\ BindValue(stmt.params[PlaceholderOf(stmt.text, p + 1)]) = Null

\* a filter the loop turns into a term of the WHERE clause
YieldsTerm(f) ==
    /\ f.operator \in SupportedOperators
    /\ f.operator \in ArrayOperators => f.value.t = "arr"

\* a filter whose term tests for NULL and binds nothing
TestsNull(f) ==
    \/ f.operator \in UnaryOperators
    \/ f.operator \in {"eq", "neq"} /\ f.value = Null

\* C11: in the statements of getTableData, an eq filter whose value is null
\* stands as '<column> IS NULL' and a neq filter whose value is null as
\* '<column> IS NOT NULL', neither binds a parameter, and no statement
\* compares a column to NULL with = or <>.
C11_NullIsTestedNotCompared ==
    (call.op = "getTableData" /\ Len(call.stmts) = 2) =>
        LET filters == call.options.filters
            Binding(f) == ~TestsNull(f)
        IN  \A k \in 1..2 :
                /\ ~ComparesToNull(call.stmts[k])
                /\ (\A j \in 1..Len(filters) : YieldsTerm(filters[j])) =>
                       /\ Len(WhereTerms(call.stmts[k].text)) = Len(filters)
                       /\ Len(call.stmts[k].params) = Len(SelectSeq(filters, Binding))
                       /\ \A j \in 1..Len(filters) :
                              (filters[j].operator \in {"eq", "neq"}
                               /\ filters[j].value = Null) =>
                                  WhereTerms(call.stmts[k].text)[j] =
                                      as_name(filters[j].column)
                                      \o <<IF filters[j].operator = "eq"
                                           THEN " IS NULL" ELSE " IS NOT NULL">>

\* C11 for the values that are not undefined: the formula above, taken over
\* the calls whose eq and neq filters all carry a value
C11_DefinedValues ==
    (\A j \in 1..Len(call.options.filters) :
         call.options.filters[j].operator \in {"eq", "neq"}
             => call.options.filters[j].value # Undefined)
    => C11_NullIsTestedNotCompared

\* an in or nin filter whose value is not an array
NotAnArray(f) == f.operator \in ArrayOperators /\ f.value.t # "arr"

\* C12: a connected getTableData whose filter list holds an in or nin filter
\* with a value that is not an array fails with an error the caller sees, and
\* compiles no statement from which that filter is missing.
C12_NonArrayIsCallerError ==
    (/\ call.op = "getTableData"
     /\ db # 0
     /\ call.options.hasFilters
     /\ \E j \in 1..Len(call.options.filters) : NotAnArray(call.options.filters[j]))
    => /\ call.status = "error"
       /\ call.stmts = <<>>

\* the first filter of a list whose operator the switch has no case for
FirstUnsupported(filters) ==
    filters[CHOOSE j \in 1..Len(filters) :
                /\ filters[j].operator \notin SupportedOperators
                /\ \A i \in 1..(j - 1) : filters[i].operator \in SupportedOperators]

\* C13: a connected getTableData whose filter list holds an operator outside
\* the supported set fails with 'Failed to fetch table data: Unsupported
\* filter operator: <op>', wherever the filter stands in the list, and neither
\* the data statement nor the count statement is issued.
C13_UnsupportedOperator ==
    (/\ call.op = "getTableData"
     /\ db # 0
     /\ call.options.hasFilters
     /\ \E j \in 1..Len(call.options.filters) :
            call.options.filters[j].operator \notin SupportedOperators)
    => /\ call.status = "error"
       /\ call.message = "Failed to fetch table data: Unsupported filter operator: "
                         \o FirstUnsupported(call.options.filters).operator
       /\ call.stmts = <<>>

\* C13 witness: the unsupported operator stood second in the list, after a
\* filter that compiles, and the call was refused
C13_Witness ==
    /\ call.op = "getTableData"
    /\ db # 0
    /\ Len(call.options.filters) = 2
    /\ WellFormed(call.options.filters[1])
    /\ call.options.filters[2].operator = "endsWith"
    /\ call.status = "error"
    /\ call.stmts = <<>>

\* a startsWith or endsWith filter over a string
Affix(f) == f.operator \in {"startsWith", "endsWith"} /\ f.value.t = "str"

\* C14: getTableData accepts startsWith and endsWith and compiles them the
\* way it compiles contains: the term is '<column> LIKE $n', and the value
\* bound to $n is the filter's value followed by '%' for startsWith and '%'
\* followed by the filter's value for endsWith.
C14_AffixCompilesToLike ==
    (/\ call.op = "getTableData"
     /\ db # 0
     /\ call.options.hasFilters
     /\ \A j \in 1..Len(call.options.filters) :
            WellFormed(call.options.filters[j]) \/ Affix(call.options.filters[j]))
    => /\ Len(call.stmts) = 2
       /\ \A k \in 1..Len(call.stmts) : \A j \in 1..Len(call.options.filters) :
              Affix(call.options.filters[j]) =>
                  /\ Len(WhereTerms(call.stmts[k].text)) = Len(call.options.filters)
                  /\ \E n \in 1..Len(call.stmts[k].params) :
                         /\ WhereTerms(call.stmts[k].text)[j] =
                                as_name(call.options.filters[j].column)
                                \o <<" LIKE ", Dollar(n)>>
                         /\ call.stmts[k].params[n] =
                                Str(IF call.options.filters[j].operator = "startsWith"
                                    THEN call.options.filters[j].value.s \o <<"%">>
                                    ELSE <<"%">> \o call.options.filters[j].value.s)

\* the terms of the ORDER BY clause of a statement, in the order they stand
OrderTerms(text) ==
    LET clause == ClauseBetween(text, "ORDER BY ", " LIMIT ", FALSE)
    IN  IF clause = <<>> THEN <<>> ELSE SplitAt(clause, ", ", <<>>)

\* rows x and y carry the same values in the columns of the first m sort terms
SameUpTo(x, y, orderBy, m) ==
    \A n \in 1..m : x[orderBy[n].column] = y[orderBy[n].column]

\* C15: the data statement of getTableData carries, for each sort term in
\* input order, the quoted column followed by DESC NULLS LAST when the
\* direction is 'desc' and by ASC NULLS FIRST otherwise, and no ORDER BY at
\* all when there is no sort term; in the returned page, among rows that the
\* earlier sort terms do not separate, no null of a DESC column stands before
\* a non-null value and no null of an ASC column stands after one.
C15_SortTermsAndNulls ==
    (call.op = "getTableData" /\ Len(call.stmts) = 2) =>
        LET orderBy == call.options.orderBy
            Expected(sort) ==
                as_name(sort.column)
                \o (IF sort.direction = "desc"
                    THEN <<" ", "DESC", " ", "NULLS LAST">>
                    ELSE <<" ", "ASC", " ", "NULLS FIRST">>)
            NullsPlaced(data) ==
                \A m \in 1..Len(orderBy) : \A j, k \in 1..Len(data) :
                    (/\ j < k
                     /\ SameUpTo(data[j], data[k], orderBy, m - 1)
                     /\ data[k][orderBy[m].column] = Null)
                    => \/ orderBy[m].direction = "desc"
                       \/ data[j][orderBy[m].column] = Null
            NonNullsPlaced(data) ==
                \A m \in 1..Len(orderBy) : \A j, k \in 1..Len(data) :
                    (/\ j < k
                     /\ SameUpTo(data[j], data[k], orderBy, m - 1)
                     /\ data[j][orderBy[m].column] = Null)
                    => \/ orderBy[m].direction # "desc"
                       \/ data[k][orderBy[m].column] = Null
        IN  /\ ("ORDER BY " \in Range(call.stmts[1].text)) = (Len(orderBy) > 0)
            /\ OrderTerms(call.stmts[1].text) = [m \in 1..Len(orderBy) |-> Expected(orderBy[m])]
            /\ call.status = "ok" =>
                   NullsPlaced(call.value.data) /\ NonNullsPlaced(call.value.data)

\* C15 witness: a page sorted by a descending and then b ascending came back
\* with a row whose a is not null first and a row whose a is null last
C15_Witness ==
    /\ call.op = "getTableData"
    /\ call.status = "ok"
    /\ Len(call.options.orderBy) = 2
    /\ call.options.orderBy[1].direction = "desc"
    /\ Len(call.value.data) > 1
    /\ call.value.data[1][ColA] # Null
    /\ call.value.data[Len(call.value.data)][ColA] = Null

\* a value that `||` does not replace
Truthy(x) == x \notin {Undefined, Null, Num(0)}

\* C16: getTableData takes options.perPage for perPage when it is truthy and
\* 10 otherwise, options.page for page when it is truthy and 1 otherwise,
\* asks the engine for perPage rows from offset (page - 1) * perPage on, and
\* reports exactly that page and perPage in the TableData it returns.
C16_PagingDefaults ==
    (call.op = "getTableData" /\ Len(call.stmts) = 2) =>
        LET perPage == IF Truthy(call.options.perPage) THEN call.options.perPage.n ELSE 10
            page == IF Truthy(call.options.page) THEN call.options.page.n ELSE 1
            text == call.stmts[1].text
        IN  /\ SubSeq(text, Len(text) - 3, Len(text)) =
                   <<" LIMIT ", NumText(perPage),
                     " OFFSET ", NumText((page - 1) * perPage)>>
            /\ call.status = "ok" =>
                   /\ call.value.page = page
                   /\ call.value.perPage = perPage

\* C16 witness: a call with perPage 0 and page 3 came back as page 3 of
\* pages of 10
C16_Witness ==
    /\ call.op = "getTableData"
    /\ call.status = "ok"
    /\ call.options.perPage = Num(0)
    /\ call.options.page = Num(3)
    /\ call.value.perPage = 10
    /\ call.value.page = 3

\* C17: for the total and the perPage of a returned TableData, totalPages is
\* the least whole number of pages of perPage rows that hold total rows,
\* ceil(total / perPage), and it is 0 when total is 0.
C17_TotalPagesIsCeiling ==
    (call.op = "getTableData" /\ call.status = "ok") =>
        /\ call.value.total >= 0
        /\ call.value.totalPages >= 0
        /\ call.value.totalPages * call.value.perPage >= call.value.total
        /\ (call.value.totalPages - 1) * call.value.perPage < call.value.total
        /\ call.value.total = 0 => call.value.totalPages = 0

\* C17 witness: a filter no row matches gave total 0 and totalPages 0 for
\* pages of 2
C17_Witness ==
    /\ call.op = "getTableData"
    /\ call.status = "ok"
    /\ call.options.hasFilters
    /\ call.value.perPage = 2
    /\ call.value.total = 0
    /\ call.value.totalPages = 0

\* row satisfies the filter, by the meaning of the operator: a comparison
\* with a NULL column is never satisfied
Satisfies(row, f) ==
    LET x == row[f.column]
    IN  CASE f.operator = "isNull" -> x = Null
          [] f.operator = "isNotNull" -> x # Null
          [] f.operator = "eq" -> x # Null /\ x.n = f.value.n
          [] f.operator = "neq" -> x # Null /\ x.n # f.value.n
          [] f.operator = "gt" -> x # Null /\ x.n > f.value.n
          [] f.operator = "gte" -> x # Null /\ x.n >= f.value.n
          [] f.operator = "lt" -> x # Null /\ x.n < f.value.n
          [] f.operator = "lte" -> x # Null /\ x.n <= f.value.n

\* the rows of a table that satisfy every filter of the options
Matching(rows, options) ==
    {r \in rows : \A j \in 1..Len(options.filters) : Satisfies(r, options.filters[j])}

\* x has to stand before y under the sort terms: the first term on whose
\* column they differ puts x first, nulls last and greater values first when
\* it is descending, nulls first and smaller values first when it is ascending
StandsBefore(x, y, orderBy) ==
    \E m \in 1..Len(orderBy) :
        /\ SameUpTo(x, y, orderBy, m - 1)
        /\ LET u == x[orderBy[m].column]
               v == y[orderBy[m].column]
           IN  /\ u # v
               /\ IF orderBy[m].direction = "desc"
                  THEN v = Null \/ (u # Null /\ u.n > v.n)
                  ELSE u = Null \/ (v # Null /\ u.n < v.n)

\* a listing of rows that the sort terms allow
InOrder(full, orderBy) ==
    \A j, k \in 1..Len(full) : j < k => ~StandsBefore(full[k], full[j], orderBy)

Max(x, y) == IF x > y THEN x ELSE y

\* C18: against a table that the call leaves as it is, a getTableData that
\* resolves returns as total the number of rows that satisfy the filters and
\* as data the rows at positions offset + 1 .. min(offset + perPage, total)
\* of a listing of those rows in the requested order, so that data holds
\* min(perPage, max(0, total - offset)) rows, and the last page holds
\* between 1 and perPage rows.
C18_PageOfOrderedResult ==
    (call.op = "getTableData" /\ call.status = "ok") =>
        LET perPage == call.value.perPage
            offset == (call.value.page - 1) * call.value.perPage
            total == call.value.total
            data == call.value.data
            hit == Matching(tables[call.table], call.options)
        IN  /\ total = Cardinality(hit)
            /\ Len(data) = Min(perPage, Max(0, total - offset))
            /\ \E full \in Orderings(hit) :
                   /\ InOrder(full, call.options.orderBy)
                   /\ data = SubSeq(full, offset + 1, Min(offset + perPage, total))
            /\ call.value.page = call.value.totalPages => Len(data) \in 1..perPage

\* C18 witness: page 2 of pages of 2 over the five rows, sorted, came back
\* with 2 rows and totalPages 3
C18_Witness ==
    /\ call.op = "getTableData"
    /\ call.status = "ok"
    /\ Len(call.options.orderBy) > 0
    /\ call.value.page = 2
    /\ call.value.perPage = 2
    /\ call.value.total = 5
    /\ Len(call.value.data) = 2
    /\ call.value.totalPages = 3

\* the error the engine answers statement k of a completed call with, "" when
\* it answers with rows
AnswerOf(c, k) ==
    Exec(c.stmts[k].text, c.stmts[k].params, tables, serial,
         CHOOSE heap \in Heaps(c.table) : TRUE).err

\* C19: a getTableData call hands the driver either no statement or both;
\* the data statement and the count statement carry the same WHERE clause
\* and the same list of bound parameters; the count statement is issued
\* whether or not the data statement fails, and the call fails, with the
\* error of a failed statement, if and only if one of the two fails.
C19_CountSharesWhere ==
    call.op = "getTableData" =>
        /\ Len(call.stmts) \in {0, 2}
        /\ Len(call.stmts) = 2 =>
               /\ ("WHERE " \in Range(call.stmts[1].text))
                      = ("WHERE " \in Range(call.stmts[2].text))
               /\ ClauseBetween(call.stmts[1].text, "WHERE ", " ", FALSE)
                      = ClauseBetween(call.stmts[2].text, "WHERE ", " ", FALSE)
               /\ call.stmts[1].params = call.stmts[2].params
               /\ (call.status = "ok") = (\A k \in 1..2 : AnswerOf(call, k) = "")
               /\ call.status = "error" =>
                      \E k \in 1..2 :
                          /\ AnswerOf(call, k) # ""
                          /\ call.message =
                                 "Failed to fetch table data: " \o AnswerOf(call, k)

\* C19 witness: with a filter in place, the data statement was refused for
\* its LIMIT, the count statement was issued with the same WHERE clause
\* and answered, and the call failed
C19_Witness ==
    /\ call.op = "getTableData"
    /\ call.status = "error"
    /\ Len(call.stmts) = 2
    /\ "WHERE " \in Range(call.stmts[2].text)
    /\ AnswerOf(call, 1) = "LIMIT must not be negative"
    /\ AnswerOf(call, 2) = ""

\* the sort terms of a completed call separate every two rows that satisfy
\* its filters
SortDecides(c) ==
    \A x, y \in Matching(tables[c.table], c.options) :
        x # y => \/ StandsBefore(x, y, c.options.orderBy)
                 \/ StandsBefore(y, x, c.options.orderBy)

\* C20: a getTableData call repeated with the same table, page, perPage,
\* filters and sort terms, the table not written in between, returns the
\* same rows in the same order, the same total and the same totalPages,
\* whatever the sort terms are: none, or terms that leave rows tied.
C20_RepeatedCallIdentical ==
    [][(call.op = "getTableData" /\ call'.op = "getTableData") =>
          /\ call'.status = call.status
          /\ call.status = "ok" =>
                 /\ call'.value.data = call.value.data
                 /\ call'.value.total = call.value.total
                 /\ call'.value.totalPages = call.value.totalPages]_vars

\* C20 as it holds: the repeated call returns the same total and the same
\* totalPages whatever the sort terms are, and the same rows in the same
\* order when the sort terms separate every two rows that satisfy the
\* filters.
C20_RepeatedCallIdenticalWhenDecided ==
    [][(call.op = "getTableData" /\ call'.op = "getTableData") =>
          /\ call'.status = call.status
          /\ call.status = "ok" =>
                 /\ call'.value.total = call.value.total
                 /\ call'.value.totalPages = call.value.totalPages
                 /\ SortDecides(call) => call'.value.data = call.value.data]_vars

\* C20 witness: sorted by a descending and then by b, which separates the
\* two rows that a leaves tied, page 2 of pages of 2 came back starting with
\* the second of the tied rows
C20_Witness ==
    /\ call.op = "getTableData"
    /\ call.status = "ok"
    /\ Len(call.options.orderBy) = 2
    /\ SortDecides(call)
    /\ call.value.page = 2
    /\ Len(call.value.data) = 2
    /\ call.value.data[1][ColA] = Num(1)
    /\ call.value.data[1][ColB] = Num(3)

\* C21: after any sequence of connect and disconnect calls that do not
\* overlap, at most one pool is open and it is the pool the adapter holds;
\* a connect that completes leaves open exactly the pool it created, with the
\* configuration it was called with, and every pool created before it closed;
\* a disconnect that completes leaves no pool open.
C21_OnePoolOpen ==
    [][/\ \A k \in 1..Len(pools') : pools'[k].open => k = db'
       /\ db' # 0 => pools'[db'].open /\ pools'[db'].schema = config'[1]
       /\ call'.op = "connect" =>
              /\ Len(pools') = Len(pools) + 1
              /\ db' = Len(pools')
              /\ SubSeq(pools', 1, Len(pools)) =
                     [k \in 1..Len(pools) |-> [pools[k] EXCEPT !.open = FALSE]]
       /\ call'.op = "disconnect" =>
              /\ db' = 0
              /\ \A k \in 1..Len(pools') : ~pools'[k].open]_vars

\* C21 witness: a connect on a connected adapter has completed with the
\* other configuration: the first pool is closed and the second is held
C21_Witness ==
    /\ call.op = "connect"
    /\ Len(pools) = 2
    /\ ~pools[1].open
    /\ pools[2].open
    /\ pools[1].schema # pools[2].schema
    /\ db = 2
    /\ config = <<pools[2].schema>>

\* C23: healthCheck never throws, whatever state the adapter is in: without
\* an active connection it returns false and issues nothing, when the round
\* trip fails it returns false, and it returns true only when the round trip
\* was made and answered; so it is false after disconnect, and after connect
\* it is true whenever the round trip is answered.
C23_HealthCheckNeverThrows ==
    [][call'.op = "healthCheck" =>
          /\ call'.status = "ok"
          /\ call'.value \in BOOLEAN
          /\ db = 0 => call'.value = FALSE /\ call'.stmts = <<>>
          /\ call'.message # "" => call'.value = FALSE
          /\ call'.value = (db # 0 /\ Len(call'.stmts) = 1 /\ call'.message = "")
          /\ UNCHANGED <<db, config, pools, tables, serial>>]_vars

\* C23 witness: on a connected adapter the round trip failed and healthCheck
\* answered false
C23_Witness ==
    /\ call.op = "healthCheck"
    /\ db # 0
    /\ call.status = "ok"
    /\ call.message = ConnectionLost
    /\ call.value = FALSE

\* C24: updateRecord and executeStatement behave like createRecord and
\* getTableData: without an active connection they fail with 'Database not
\* connected' and issue nothing; with one they hand exactly one statement
\* with its bound parameters to the driver, and a call that resolves returns
\* rows: updateRecord the updated row, executeStatement the rows of the
\* statement.
C24_UpdateAndExecuteRun ==
    call.op \in {"updateRecord", "executeStatement"} =>
        IF db = 0
        THEN /\ call.status = "error"
             /\ call.message = "Database not connected"
             /\ call.stmts = <<>>
        ELSE /\ Len(call.stmts) = 1
             /\ call.status = "ok" => call.value # Undefined

\* what the engine and the driver say when a statement fails
EngineMessages ==
    ConstraintMessages
    \cup {ConnectionLost, "syntax error", "relation does not exist",
          "column does not exist", "column specified more than once",
          "Variable out of range", "invalid input syntax for type integer",
          "malformed array literal", "operator does not exist: integer ~~ unknown",
          "LIMIT must not be negative", "OFFSET must not be negative",
          "No data returned from the query.", "Multiple rows were not expected."}

\* the prefix each CRUD operation puts before the message of an error
PrefixOf(op) ==
    CASE op = "createRecord" -> "Failed to create record"
      [] op = "deleteRecord" -> "Failed to delete record"
      [] op = "getTableData" -> "Failed to fetch table data"

\* C25: when a statement of getTableList, getTableSchema, createRecord,
\* deleteRecord or getTableData fails in the engine, the caller gets an Error
\* whose message is the prefix of the operation followed by the engine's
\* message; the engine's message alone never reaches the caller.
C25_EngineErrorsWrapped ==
    (/\ call.op \in GuardedOps
     /\ call.status = "error"
     /\ call.stmts # <<>>)
    => /\ call.message \notin EngineMessages
       /\ call.op \in CrudOps =>
              call.message \in {PrefixOf(call.op) \o ": " \o m : m \in EngineMessages}

\* C25 for the operations that have a catch: createRecord, deleteRecord and
\* getTableData wrap every engine error
C25_CrudErrorsWrapped ==
    call.op \in CrudOps => C25_EngineErrorsWrapped

\* ForeignKeyAction
ForeignKeyActions == {"CASCADE", "SET NULL", "SET DEFAULT", "RESTRICT", "NO ACTION"}

-----------------------------------------------------------------------------
(* The type mapping of getTableSchema on its own: a row of the columns query
   (data_type, udt_name) is drawn, and the mapping is applied to it *)

InitTypes ==
    /\ db = 1
    /\ tasks = <<>>
    /\ config = <<SchemaS>>
    /\ pools = <<[schema |-> SchemaS, open |-> TRUE]>>
    /\ tables = [n \in {TableT, TableU} |-> {}]
    /\ serial = 1
    /\ \E dataType \in {"integer", "character varying", "ARRAY", "USER-DEFINED"} :
       \E udtName \in
            {"int2", "int4", "int8", "smallint", "integer", "bigint",
             "float4", "float8", "real", "double precision", "numeric", "decimal",
             "char", "varchar", "text", "name", "bpchar", "uuid", "bool", "boolean",
             "date", "time", "timetz", "timestamp", "timestamptz", "bytea",
             "json", "jsonb", "_int2", "_int4", "_int8", "_text", "_varchar",
             "_bool", "_numeric", "_float4", "_float8", "_timestamp", "_date",
             "_uuid", "hstore", "record",
             "", "INT4", "Text", "int", "int4 ", "money", "interval", "citext",
             "_json", "_jsonb", "_timestamptz", "xml", "inet", "oid",
             "character varying", "timestamp without time zone", "unknown",
             "toString", "constructor", "__proto__"} :
           call = Resolved("column", <<>>, <<dataType, udtName>>, NoOptions, <<>>,
                           Undefined)

\* columns.map(column => ...): unifiedType of one row of the columns query
mapColumn ==
    /\ call.op = "column"
    /\ UNCHANGED tasks
    /\ call' = Resolved("mapPostgresTypeToUnifiedType", <<>>, call.object, NoOptions,
                        <<>>, mapPostgresTypeToUnifiedType(call.object[1],
                                                           call.object[2]))
    /\ UNCHANGED <<db, config, pools, tables, serial>>

NextTypes == mapColumn

SpecTypes == InitTypes /\ [][NextTypes]_vars

\* UnifiedColumnType
UnifiedColumnTypes ==
    {"integer", "float", "decimal", "string", "boolean", "date", "time", "datetime",
     "binary", "json", "array", "object", "unknown"}

\* the static table: the native names, each with its unified type
TypeTable ==
    ({"int2", "int4", "int8", "smallint", "integer", "bigint"} \X {"integer"})
    \cup ({"float4", "float8", "real", "double precision"} \X {"float"})
    \cup ({"numeric", "decimal"} \X {"decimal"})
    \cup ({"char", "varchar", "text", "name", "bpchar", "uuid"} \X {"string"})
    \cup ({"bool", "boolean"} \X {"boolean"})
    \cup ({"date"} \X {"date"})
    \cup ({"time", "timetz"} \X {"time"})
    \cup ({"timestamp", "timestamptz"} \X {"datetime"})
    \cup ({"bytea"} \X {"binary"})
    \cup ({"json", "jsonb"} \X {"json"})
    \cup ({"_int2", "_int4", "_int8", "_text", "_varchar", "_bool", "_numeric",
           "_float4", "_float8", "_timestamp", "_date", "_uuid"} \X {"array"})
    \cup ({"hstore", "record"} \X {"object"})

\* C26: the type mapping answers every native type name with exactly one
\* UnifiedColumnType that the name alone determines (the data_type of the row
\* and the adapter play no part, and nothing is changed or thrown): the type
\* the static table lists for the name, and UNKNOWN for a name that is not in
\* the table.
C26_TypeMappingTotal ==
    [][call'.op = "mapPostgresTypeToUnifiedType" =>
          /\ call'.status = "ok"
          /\ call'.value \in UnifiedColumnTypes
          /\ call'.object = call.object
          /\ \A listed \in TypeTable :
                 listed[1] = call.object[2] => call'.value = listed[2]
          /\ (\A listed \in TypeTable : listed[1] # call.object[2]) =>
                 call'.value = "unknown"
          /\ UNCHANGED <<db, config, pools, tables, serial>>]_vars

\* C26 witness: a listed name was mapped to its type although the data_type
\* of the row suggests another one
C26_Witness ==
    /\ call.op = "mapPostgresTypeToUnifiedType"
    /\ call.object = <<"integer", "timestamptz">>
    /\ call.value = "datetime"

\* the terms of a statement, each with whether it binds a value and which:
\* the where fields of deleteRecord, the filters of getTableData that yield
\* a term
Carriers(c) ==
    IF c.op = "deleteRecord"
    THEN [k \in 1..Len(c.object) |->
             [binds |-> c.object[k].v # Null, value |-> c.object[k].v]]
    ELSE LET yielding == IF c.options.hasFilters
                         THEN SelectSeq(c.options.filters, YieldsTerm) ELSE <<>>
         IN  [k \in 1..Len(yielding) |->
                 [binds |-> ~TestsNull(yielding[k]),
                  value |-> IF yielding[k].operator = "contains"
                            THEN Str(<<"%">> \o TemplateString(yielding[k].value)
                                     \o <<"%">>)
                            ELSE yielding[k].value]]

\* the terms of the WHERE clause of a statement of either operation
TermsOf(c, text) ==
    IF c.op = "deleteRecord"
    THEN SplitAt(ClauseBetween(text, " WHERE ", " RETURNING 1 AS deleted", FALSE),
                 " AND ", <<>>)
    ELSE WhereTerms(text)

\* C28: in every statement that getTableData and deleteRecord hand to the
\* driver, the placeholders of the text are $1..$n in this order, n being the
\* number of bound parameters; the term of a field or filter that binds
\* nothing holds no placeholder, and the term of the k-th one that binds a
\* value holds $k, the k-th parameter being that value, wherever the terms
\* that bind nothing stand among the others.
C28_PlaceholdersNumbered ==
    call.op \in {"getTableData", "deleteRecord"} =>
        \A s \in 1..Len(call.stmts) :
            LET stmt == call.stmts[s]
                terms == TermsOf(call, stmt.text)
                carriers == Carriers(call)
            IN  /\ Len(stmt.params) <= Len(PlaceholderTokens)
                /\ PlaceholdersIn(stmt.text) =
                       [k \in 1..Len(stmt.params) |-> Dollar(k)]
                /\ Len(terms) = Len(carriers)
                /\ \A j \in 1..Len(carriers) :
                       LET k == Cardinality({i \in 1..j : carriers[i].binds})
                       IN  IF carriers[j].binds
                           THEN /\ PlaceholdersIn(terms[j]) = <<Dollar(k)>>
                                /\ k <= Len(stmt.params)
                                /\ stmt.params[k] = carriers[j].value
                           ELSE PlaceholdersIn(terms[j]) = <<>>

\* C28 witness: a delete whose first field is null and whose second binds $1
C28_Witness ==
    /\ call.op = "deleteRecord"
    /\ Len(call.stmts) = 1
    /\ Len(call.object) = 2
    /\ call.object[1].v = Null
    /\ call.stmts[1].params = <<call.object[2].v>>
    /\ PlaceholdersIn(call.stmts[1].text) = <<Dollar(1)>>

\* C28 witness of getTableData: a filter that tests for NULL stands before one
\* that binds $1, in both statements
C28_WitnessFilters ==
    /\ call.op = "getTableData"
    /\ Len(call.stmts) = 2
    /\ Len(call.options.filters) = 2
    /\ call.options.filters[1].operator = "isNotNull"
    /\ call.options.filters[2].operator = "lt"
    /\ \A s \in 1..2 : /\ PlaceholdersIn(call.stmts[s].text) = <<Dollar(1)>>
                       /\ call.stmts[s].params = <<call.options.filters[2].value>>

\* the number a statement text carries just after the token tok
NumberAfter(text, tok) ==
    LET p == CHOOSE p \in 1..(Len(text) - 1) : text[p] = tok
    IN  CHOOSE n \in DOMAIN NumberTokens : NumText(n) = text[p + 1]

\* C29: whatever page and perPage the options carry (zero, negative or
\* absent included), the data statement of getTableData has a LIMIT of at
\* least 1 and an OFFSET of at least 0, and the TableData that comes back has
\* page and perPage of at least 1.
C29_PagingInRange ==
    (call.op = "getTableData" /\ Len(call.stmts) = 2) =>
        /\ NumberAfter(call.stmts[1].text, " LIMIT ") >= 1
        /\ NumberAfter(call.stmts[1].text, " OFFSET ") >= 0
        /\ call.status = "ok" => (call.value.page >= 1 /\ call.value.perPage >= 1)

\* C29 for the calls that resolve only: the engine refuses a negative LIMIT
\* or OFFSET, so what comes back is in range
C29_ResolvedPagingInRange ==
    (call.op = "getTableData" /\ call.status = "ok") => C29_PagingInRange

-----------------------------------------------------------------------------
(* Calls that overlap: connect, disconnect and getTableSchema are async
   functions, each runs until its next await and is resumed later, and the
   steps of other calls come in between. A pool whose end() was called has
   open = FALSE: a second end() of it rejects, and so does a query on it;
   end() settles when the queries that run on the pool have returned. *)

\* an async call: pc is the await it is suspended at, or how it settled;
\* used are the pools it used: the pool a connect or disconnect called end()
\* on, the pools the queries of a getTableSchema went to, in order
Task(op, arg, pc, used, message) ==
    [op |-> op, arg |-> arg, pc |-> pc, used |-> used, message |-> message]

\* if (this.db) { await this.db.$pool.end(); ... } of a call that has just
\* begun: nothing to end, an end() that rejects, or an end() to wait for
BeginEnd(op, arg, settled) ==
    IF NotConnected(db)
    THEN settled
    ELSE /\ tasks' = Append(tasks,
                IF pools[db].open
                THEN Task(op, arg, "end", <<db>>, "")
                ELSE Task(op, arg, "failed", <<>>,
                          "Called end on pool more than once"))
         /\ pools' = ClosePool(pools, db)
         /\ UNCHANGED <<db, config>>

\* this.config = config; this.db = this.pgp(connectionConfig)
OpenPool(schema) ==
    /\ config' = <<schema>>
    /\ pools' = Append(pools, [schema |-> schema, open |-> TRUE])
    /\ db' = Len(pools) + 1

\* connect(config) is called and runs to its first await, or to its end
\* when there is no connection to close
connectBegins(schema) ==
    /\ Len(tasks) < MaxTasks
    /\ Len(pools) + Cardinality({i \in DOMAIN tasks :
                                    /\ tasks[i].op = "connect"
                                    /\ tasks[i].pc \in {"end", "disconnected"}})
           < MaxOverlapPools
    /\ BeginEnd("connect", schema,
                /\ OpenPool(schema)
                /\ tasks' = Append(tasks, Task("connect", schema, "done", <<>>, "")))
    /\ UNCHANGED <<tables, serial, call>>

\* disconnect() is called
disconnectBegins ==
    /\ Len(tasks) < MaxTasks
    /\ BeginEnd("disconnect", <<>>,
                /\ tasks' = Append(tasks, Task("disconnect", <<>>, "done", <<>>, ""))
                /\ UNCHANGED <<db, config, pools>>)
    /\ UNCHANGED <<tables, serial, call>>

\* await this.db.$pool.end() returns in disconnect, which it does when no
\* query runs on the pool any more: this.db = null; a disconnect is done, a
\* connect goes on once its await of disconnect() returns
poolEnded(i) ==
    /\ tasks[i].pc = "end"
    /\ \A j \in DOMAIN tasks :
           tasks[j].pc = "query" => tasks[j].used[Len(tasks[j].used)] # tasks[i].used[1]
    /\ db' = 0
    /\ tasks' = [tasks EXCEPT ![i].pc = IF tasks[i].op = "connect"
                                        THEN "disconnected" ELSE "done"]
    /\ UNCHANGED <<config, pools, tables, serial, call>>

\* await this.disconnect() returns in connect
disconnected(i) ==
    /\ tasks[i].pc = "disconnected"
    /\ OpenPool(tasks[i].arg)
    /\ tasks' = [tasks EXCEPT ![i].pc = "done"]
    /\ UNCHANGED <<tables, serial, call>>

\* this.db.any(...) of a getTableSchema that is past its checks: the handle
\* is read again for every query
IssueQuery(task) ==
    IF db = 0
    THEN [task EXCEPT !.pc = "failed",
                      !.message = "Cannot read properties of null (reading 'any')"]
    ELSE IF ~pools[db].open
    THEN [task EXCEPT !.pc = "failed",
                      !.message = "Cannot use a pool after calling end on the pool"]
    ELSE [task EXCEPT !.pc = "query", !.used = Append(task.used, db)]

\* getTableSchema(tableName) is called and runs to its first await
getTableSchemaBegins(tableName) ==
    /\ Len(tasks) < MaxTasks
    /\ tasks' = Append(tasks,
           IF NotConnected(db)
           THEN Task("getTableSchema", tableName, "failed", <<>>, "Database not connected")
           ELSE IF config = <<>>
           THEN Task("getTableSchema", tableName, "failed", <<>>, "Database config not set")
           ELSE IssueQuery(Task("getTableSchema", tableName, "checked", <<>>, "")))
    /\ UNCHANGED <<db, config, pools, tables, serial, call>>

\* a query of getTableSchema returns at the pool: its client is released,
\* and its result is on the way to the call
queryReturned(i) ==
    /\ tasks[i].pc = "query"
    /\ tasks' = [tasks EXCEPT ![i].pc = "returned"]
    /\ UNCHANGED <<db, config, pools, tables, serial, call>>

\* await this.db.any(...) returns in getTableSchema: the next query is
\* issued, or the schema is put together after the last
getTableSchemaResumes(i) ==
    /\ tasks[i].pc = "returned"
    /\ tasks' = [tasks EXCEPT ![i] =
                    IF Len(tasks[i].used) = Len(GetTableSchemaQueries)
                    THEN [tasks[i] EXCEPT !.pc = "done"]
                    ELSE IssueQuery(tasks[i])]
    /\ UNCHANGED <<db, config, pools, tables, serial, call>>

NextOverlap ==
    \/ \E schema \in Schemas : connectBegins(schema)
    \/ disconnectBegins
    \/ \E tableName \in {TableT} : getTableSchemaBegins(tableName)
    \/ \E i \in DOMAIN tasks : poolEnded(i)
    \/ \E i \in DOMAIN tasks : disconnected(i)
    \/ \E i \in DOMAIN tasks : queryReturned(i)
    \/ \E i \in DOMAIN tasks : getTableSchemaResumes(i)

SpecOverlap == Init /\ [][NextOverlap]_vars

\* C22: when connect calls on one adapter overlap, once all of them have
\* completed the adapter references an open pool, that pool is the only one
\* open, and so no pool that one of the calls opened is left open without
\* the adapter referencing it.
C22_OverlappingConnectsLeaveOnePool ==
    (/\ Len(tasks) >= 2
     /\ \A i \in DOMAIN tasks :
            tasks[i].op = "connect" /\ tasks[i].pc \in {"done", "failed"}) =>
        /\ db # 0
        /\ pools[db].open
        /\ \A k \in DOMAIN pools : pools[k].open => k = db

\* C30: a getTableSchema call that is past its connection check and has a
\* query in flight while connect or disconnect calls overlap it never reads
\* a cleared handle: if it fails, it fails with 'Database not connected', and
\* the queries it issues all go to the pool that was active when it began.
C30_SchemaCallKeepsItsPool ==
    \A i \in DOMAIN tasks :
        (tasks[i].op = "getTableSchema" /\ tasks[i].used # <<>>) =>
            /\ tasks[i].pc = "failed" => tasks[i].message = "Database not connected"
            /\ \A k \in 1..Len(tasks[i].used) : tasks[i].used[k] = tasks[i].used[1]

\* C30, first half alone: no call reads this.db when it is null
C30_NoClearedHandleRead ==
    \A i \in DOMAIN tasks :
        tasks[i].message # "Cannot read properties of null (reading 'any')"

\* C30, second half alone: the queries of one call all go to one pool
C30_QueriesOnOnePool ==
    \A i \in DOMAIN tasks :
        tasks[i].op = "getTableSchema" =>
            \A k \in 1..Len(tasks[i].used) : tasks[i].used[k] = tasks[i].used[1]

====
